---- MODULE Spec2Model ----
(***************************************************************************)
(* A model of cargo-txt: the HTML to Markdown converter (src/html2md.rs),  *)
(* the item index builder, the build / show / list commands               *)
(* (src/commands/build.rs, show.rs, list.rs) and the renderers of items    *)
(* (src/markdown/type_alias.rs, struct.rs, enum.rs, union.rs, index.rs,    *)
(* utils.rs).                                                              *)
(*                                                                         *)
(* Strings are sequences of one-character strings, so that splitting,      *)
(* joining, prefixing and bracket scanning are computed as the code        *)
(* computes them.                                                          *)
(***************************************************************************)
EXTENDS Integers, Sequences, FiniteSets, TLC

VARIABLES
    text,        \* SpecText: the input of process_text_links
    processed,   \* SpecText: [done, out], the result of process_text_links
    document,    \* SpecConvert: the parsed document given to convert
    converted,   \* SpecConvert: [done, ok, val, err], the result of convert
    listing,     \* SpecIndex: [anchors, html], the all-items page and the
                 \* anchors it was written from
    extracted,   \* SpecIndex: [done, crate_name, ok, val, err], the result
                 \* of extract_item_mappings
    dependencies, \* Spec: the declared names of the project's dependencies
    site,        \* Spec: which documentation cargo doc generates
    target,      \* Spec: [doc, dirs, files], the target directory
    outcome,     \* Spec: the outcome of the last command
    alias,       \* SpecAlias: [item, alias_data, crate_index, namespace], the
                 \* arguments of generate_alias_content
    rendered,    \* SpecAlias: [done, out], the result of generate_alias_content
    subject,     \* SpecType, SpecFiles, SpecUnion: the types or items given
                 \* to the renderers of src/markdown
    product      \* SpecType, SpecFiles, SpecUnion: [done, ...], what the
                 \* renderers return for the subject

textVars == <<text, processed>>
convertVars == <<document, converted>>
indexVars == <<listing, extracted>>
commandVars == <<dependencies, site, target, outcome>>
aliasVars == <<alias, rendered>>
markdownVars == <<subject, product>>
vars == <<textVars, convertVars, indexVars, commandVars, aliasVars, markdownVars>>

----------------------------------------------------------------------------
(* Bounds of the model.                                                    *)

\* longest input text of process_text_links over TextAlphabet
MaxTextLen == 6

\* longest input text of process_text_links made of brackets only
MaxBracketLen == 8

\* most blocks in the body of a document given to convert
MaxBlocks == 2

\* most anchors on an all-items page given to extract_item_mappings
MaxAnchors == 3

----------------------------------------------------------------------------
(* String helpers.                                                         *)

\* U+00A0, the non-breaking space, as one character
NBSP == "nbsp"

\* U+0060, the backtick, as one character
Backtick == "backtick"

\* char::is_whitespace, restricted to the characters the model uses
IsWhitespace(c) == c \in {" ", "\n", "\t", NBSP}

\* every sequence over alphabet of length at most n
SeqsUpTo(alphabet, n) == UNION {[1..k -> alphabet] : k \in 0..n}

\* str::starts_with
StartsWith(s, p) == Len(s) >= Len(p) /\ SubSeq(s, 1, Len(p)) = p

\* str::contains for a non-empty pattern
Contains(s, p) ==
    \E i \in 1..(Len(s) - Len(p) + 1) : SubSeq(s, i, i + Len(p) - 1) = p

\* the rest of s from position i
Tail_(s, i) == SubSeq(s, i, Len(s))

\* the first position from `from` on at which p occurs in s, or 0
FirstMatch(s, p, from) ==
    LET hits == {i \in from..(Len(s) - Len(p) + 1) : SubSeq(s, i, i + Len(p) - 1) = p}
    IN  IF hits = {} THEN 0 ELSE CHOOSE i \in hits : \A j \in hits : i <= j

\* str::split(sep): the pieces between the occurrences of sep, at least one
RECURSIVE SplitFrom(_, _, _)
SplitFrom(s, sep, from) ==
    LET m == FirstMatch(s, sep, from)
    IN  IF m = 0 THEN <<SubSeq(s, from, Len(s))>>
        ELSE <<SubSeq(s, from, m - 1)>> \o SplitFrom(s, sep, m + Len(sep))

Split(s, sep) == SplitFrom(s, sep, 1)

\* [String]::join(sep)
RECURSIVE Join(_, _)
Join(pieces, sep) ==
    IF Len(pieces) = 0 THEN <<>>
    ELSE IF Len(pieces) = 1 THEN pieces[1]
    ELSE pieces[1] \o sep \o Join(Tail(pieces), sep)

\* str::replace: every non-overlapping occurrence of p, left to right
Replace(s, p, r) == Join(Split(s, p), r)

\* str::trim().is_empty()
IsBlank(s) == \A i \in 1..Len(s) : IsWhitespace(s[i])

\* str::split_whitespace: the maximal runs of non-whitespace characters
SplitWhitespace(s) ==
    LET starts == {i \in 1..Len(s) :
                      ~IsWhitespace(s[i]) /\ (i = 1 \/ IsWhitespace(s[i - 1]))}
        start(k) == CHOOSE i \in starts : Cardinality({j \in starts : j < i}) = k - 1
        stop(i)  == CHOOSE j \in i..Len(s) :
                        /\ \A m \in i..j : ~IsWhitespace(s[m])
                        /\ (j = Len(s) \/ IsWhitespace(s[j + 1]))
    IN  [k \in 1..Cardinality(starts) |-> SubSeq(s, start(k), stop(start(k)))]

\* str::lines: split at line feeds, a final line feed ends the last line
Lines(s) ==
    LET pieces == Split(s, <<"\n">>)
    IN  IF Len(pieces[Len(pieces)]) = 0
        THEN SubSeq(pieces, 1, Len(pieces) - 1)
        ELSE pieces

\* the concatenation of a sequence of strings
RECURSIVE Flatten(_)
Flatten(ss) == IF Len(ss) = 0 THEN <<>> ELSE ss[1] \o Flatten(Tail(ss))

----------------------------------------------------------------------------
(* html2md::process_text_links                                             *)

\* the label loop without the nesting count: the first closing bracket ends it
RECURSIVE ScanLabelFlat(_, _, _, _)
ScanLabelFlat(s, j, link_text, bracket_count) ==
    IF j > Len(s) THEN [pos |-> j, link_text |-> link_text]
    ELSE IF s[j] = "]" THEN [pos |-> j + 1, link_text |-> link_text]
    ELSE ScanLabelFlat(s, j + 1, Append(link_text, s[j]), bracket_count)

\* the label loop: consumes up to and including the bracket that closes the
\* group opened before position j; the closing bracket itself is not pushed
RECURSIVE ScanLabel(_, _, _, _)
ScanLabel(s, j, link_text, bracket_count) ==
    IF j > Len(s) THEN [pos |-> j, link_text |-> link_text]
    ELSE IF s[j] = "[" THEN
        ScanLabel(s, j + 1, Append(link_text, s[j]), bracket_count + 1)
    ELSE IF s[j] = "]" THEN
        IF bracket_count - 1 = 0 THEN [pos |-> j + 1, link_text |-> link_text]
        ELSE ScanLabel(s, j + 1, Append(link_text, s[j]), bracket_count - 1)
    ELSE ScanLabel(s, j + 1, Append(link_text, s[j]), bracket_count)

\* the whitespace loop: the position of the first non-whitespace character
RECURSIVE SkipWhitespace(_, _)
SkipWhitespace(s, j) ==
    IF j <= Len(s) /\ IsWhitespace(s[j]) THEN SkipWhitespace(s, j + 1) ELSE j

\* the reference loop: the position after the bracket closing the reference
RECURSIVE SkipReference(_, _, _)
SkipReference(s, j, ref_bracket_count) ==
    IF j > Len(s) THEN j
    ELSE IF s[j] = "[" THEN SkipReference(s, j + 1, ref_bracket_count + 1)
    ELSE IF s[j] = "]" THEN
        IF ref_bracket_count - 1 = 0 THEN j + 1
        ELSE SkipReference(s, j + 1, ref_bracket_count - 1)
    ELSE SkipReference(s, j + 1, ref_bracket_count)

\* the outer loop, from position i with result so far
RECURSIVE ScanText(_, _, _)
ScanText(s, i, result) ==
    IF i > Len(s) THEN result
    ELSE IF s[i] = "[" THEN
        LET lab == ScanLabel(s, i + 1, <<>>, 1)
            j   == SkipWhitespace(s, lab.pos)
        IN  IF j <= Len(s) /\ s[j] = "["
            THEN ScanText(s, SkipReference(s, j + 1, 1), result \o lab.link_text)
            ELSE ScanText(s, j, result \o <<"[">> \o lab.link_text \o <<"]">>)
    ELSE ScanText(s, i + 1, Append(result, s[i]))

process_text_links(s) == ScanText(s, 1, <<>>)

----------------------------------------------------------------------------
(* The parsed document (scraper::Html): a tree of element and text nodes.  *)
(* An element carries its name, its id and class attributes (empty when    *)
(* absent) and its href attribute as a sequence of zero or one strings.    *)

Txt(s) ==
    [kind |-> "text", name |-> "", id |-> "", class |-> <<>>, href |-> <<>>,
     s |-> s, kids |-> <<>>]

ElemFull(name, id, class, href, kids) ==
    [kind |-> "elem", name |-> name, id |-> id, class |-> class, href |-> href,
     s |-> <<>>, kids |-> kids]

Elem(name, kids) == ElemFull(name, "", <<>>, <<>>, kids)

\* the element nodes of the tree under node, node included, in document order
RECURSIVE Elements(_)
RECURSIVE ElementsOfKids(_)
Elements(node) ==
    IF node.kind = "elem" THEN <<node>> \o ElementsOfKids(node.kids) ELSE <<>>

ElementsOfKids(kids) ==
    IF Len(kids) = 0 THEN <<>>
    ELSE Elements(kids[1]) \o ElementsOfKids(Tail(kids))

\* Selector "main": the elements named name, in document order
RECURSIVE KeepNamed(_, _)
KeepNamed(elems, name) ==
    IF Len(elems) = 0 THEN <<>>
    ELSE (IF elems[1].name = name THEN <<elems[1]>> ELSE <<>>)
         \o KeepNamed(Tail(elems), name)

SelectByName(html, name) == KeepNamed(Elements(html), name)

\* ElementRef::text().collect(): the text nodes under node, concatenated
RECURSIVE ElementText(_)
RECURSIVE TextOfKids(_)
ElementText(node) ==
    IF node.kind = "text" THEN node.s ELSE TextOfKids(node.kids)

TextOfKids(kids) ==
    IF Len(kids) = 0 THEN <<>>
    ELSE ElementText(kids[1]) \o TextOfKids(Tail(kids))

----------------------------------------------------------------------------
(* Results: Ok(val) or Err(err), an error being its kind and its text.     *)

NoError == [kind |-> "none", text |-> <<>>]

Ok(val) == [ok |-> TRUE, val |-> val, err |-> NoError]

Err(kind, msg, empty) ==
    [ok |-> FALSE, val |-> empty, err |-> [kind |-> kind, text |-> msg]]

----------------------------------------------------------------------------
(* html2md: should_skip_node, convert_node and the functions it calls.     *)

S_src == <<"s", "r", "c">>
S_hideme == <<"h", "i", "d", "e", "m", "e">>
S_anchor == <<"a", "n", "c", "h", "o", "r">>
S_breadcrumbs ==
    <<"r", "u", "s", "t", "d", "o", "c", "-",
      "b", "r", "e", "a", "d", "c", "r", "u", "m", "b", "s">>
S_tooltip == <<"t", "o", "o", "l", "t", "i", "p">>
S_amp_nbsp == <<"&", "n", "b", "s", "p", ";">>

\* should_skip_node that also looks for the source marker in the link target
should_skip_node_href(node) ==
    \/ node.name \in {"wbr", "rustdoc-toolbar", "script"}
    \/ node.id \in {"copy-path", "implementors", "implementors-list"}
    \/ Contains(node.class, S_src)
    \/ Contains(node.class, S_hideme)
    \/ Contains(node.class, S_anchor)
    \/ Contains(node.class, S_breadcrumbs)
    \/ Contains(node.class, S_tooltip)
    \/ \E i \in 1..Len(node.href) : Contains(node.href[i], S_src)

should_skip_node(node) ==
    \/ node.name \in {"wbr", "rustdoc-toolbar", "script"}
    \/ node.id \in {"copy-path", "implementors", "implementors-list"}
    \/ Contains(node.class, S_src)
    \/ Contains(node.class, S_hideme)
    \/ Contains(node.class, S_anchor)
    \/ Contains(node.class, S_breadcrumbs)
    \/ Contains(node.class, S_tooltip)

\* format!("{}", index) for a positive index
RECURSIVE Decimal(_)
Decimal(n) ==
    LET digit == <<"0", "1", "2", "3", "4", "5", "6", "7", "8", "9">>
    IN  IF n < 10 THEN <<digit[n + 1]>>
        ELSE Decimal(n \div 10) \o <<digit[(n % 10) + 1]>>

\* "#" repeated n times
RECURSIVE Hashes(_)
Hashes(n) == IF n = 0 THEN <<>> ELSE <<"#">> \o Hashes(n - 1)

HeadingLevel(name) ==
    CASE name = "h1" -> 1 [] name = "h2" -> 2 [] name = "h3" -> 3
      [] name = "h4" -> 4 [] name = "h5" -> 5 [] name = "h6" -> 6
      [] OTHER -> 0

\* split_whitespace().collect().join(" ")
NormalizeWhitespace(buffer) == Join(SplitWhitespace(buffer), <<" ">>)

RECURSIVE convert_node(_, _)
RECURSIVE ConvertKids(_, _)
RECURSIVE ListItems(_, _, _)
RECURSIVE DefinitionItems(_, _, _)

\* convert_children: the children of node, in order; parent is node's name
convert_children(node) == ConvertKids(node.kids, node.name)

convert_children_normalized(node) == NormalizeWhitespace(convert_children(node))

convert_list_item(node) == convert_children_normalized(node)

convert_list(node, is_ordered) == ListItems(node.kids, 1, is_ordered)

convert_definition_list(node) == DefinitionItems(node.kids, FALSE, FALSE)

\* one text node of convert_children
ConvertText(s) ==
    LET text_str == Replace(Replace(s, <<NBSP>>, <<" ">>), S_amp_nbsp, <<" ">>)
    IN  IF IsBlank(text_str) THEN <<>> ELSE process_text_links(text_str)

ConvertKids(kids, parent) ==
    IF Len(kids) = 0 THEN <<>>
    ELSE (CASE kids[1].kind = "text" -> ConvertText(kids[1].s)
            [] kids[1].kind = "elem" -> convert_node(kids[1], parent)
            [] OTHER -> <<>>)
         \o ConvertKids(Tail(kids), parent)

\* the loop of convert_list from child kids[1] on
ListItems(kids, index, is_ordered) ==
    IF Len(kids) = 0 THEN <<>>
    ELSE IF kids[1].kind = "elem" /\ kids[1].name = "li" THEN
        (IF is_ordered THEN Decimal(index) \o <<".", " ">> ELSE <<"-", " ">>)
        \o convert_list_item(kids[1]) \o <<"\n">>
        \o ListItems(Tail(kids), IF is_ordered THEN index + 1 ELSE index, is_ordered)
    ELSE ListItems(Tail(kids), index, is_ordered)

\* the loop of convert_definition_list from child kids[1] on, and the final
\* line feed; has_term is current_term.is_some()
DefinitionItems(kids, has_term, has_description) ==
    IF Len(kids) = 0 THEN
        (IF has_term /\ has_description THEN <<"\n">> ELSE <<>>)
    ELSE IF kids[1].kind = "elem" /\ kids[1].name = "dt" THEN
        (IF has_term /\ has_description THEN <<"\n">> ELSE <<>>)
        \o <<"-", " ", "*", "*">> \o convert_children_normalized(kids[1])
        \o <<"*", "*">>
        \o DefinitionItems(Tail(kids), TRUE, FALSE)
    ELSE IF kids[1].kind = "elem" /\ kids[1].name = "dd" THEN
        IF has_term THEN
            <<":", " ">> \o convert_children_normalized(kids[1])
            \o DefinitionItems(Tail(kids), has_term, TRUE)
        ELSE DefinitionItems(Tail(kids), has_term, has_description)
    ELSE DefinitionItems(Tail(kids), has_term, has_description)

\* parent is the name of node's parent element ("" when it has none)
convert_node(node, parent) ==
    IF should_skip_node(node) THEN <<>>
    ELSE CASE HeadingLevel(node.name) > 0 ->
                Hashes(HeadingLevel(node.name)) \o <<" ">>
                \o convert_children_normalized(node) \o <<"\n", "\n">>
           [] node.name = "p" ->
                convert_children_normalized(node) \o <<"\n", "\n">>
           [] node.name = "code" ->
                IF parent # "pre"
                THEN <<Backtick>> \o convert_children(node) \o <<Backtick>>
                ELSE convert_children(node)
           [] node.name = "pre" ->
                <<Backtick, Backtick, Backtick, "\n">> \o convert_children(node)
                \o <<"\n", Backtick, Backtick, Backtick, "\n", "\n">>
           [] node.name \in {"ul", "ol"} ->
                convert_list(node, node.name = "ol") \o <<"\n">>
           [] node.name = "li" -> convert_list_item(node)
           [] node.name = "dl" -> convert_definition_list(node) \o <<"\n">>
           [] node.name = "dt" ->
                <<"-", " ", "*", "*">> \o convert_children(node) \o <<"*", "*">>
           [] node.name = "dd" ->
                <<":", " ">> \o convert_children(node) \o <<"\n">>
           [] node.name \in {"strong", "b"} ->
                <<"*", "*">> \o convert_children(node) \o <<"*", "*">>
           [] node.name \in {"em", "i"} ->
                <<"_">> \o convert_children(node) \o <<"_">>
           [] node.name = "blockquote" ->
                <<">", " ">> \o convert_children(node) \o <<"\n", "\n">>
           [] node.name = "br" -> <<"\n", "\n">>
           [] OTHER -> convert_children(node)

\* the message of convert's error, as one token
MissingMainMessage ==
    <<"HTML document does not contain a <main> element. This may indicate invalid rustdoc HTML output.">>

\* convert that looks for the content root among the children of <body> only
convert_body_child_only(html) ==
    LET bodies == SelectByName(html, "body")
        mains  == IF Len(bodies) = 0 THEN <<>>
                  ELSE SelectSeq(bodies[1].kids, LAMBDA n : n.name = "main")
    IN  IF Len(mains) = 0
        THEN Err("ElementNotFound", MissingMainMessage, <<>>)
        ELSE Ok(convert_node(mains[1], ""))

convert(html) ==
    LET mains == SelectByName(html, "main")
    IN  IF Len(mains) = 0
        THEN Err("ElementNotFound", MissingMainMessage, <<>>)
        ELSE Ok(convert_node(mains[1], ""))

----------------------------------------------------------------------------
(* The item index: build::extract_item_mappings.                           *)

S_all_items ==
    <<"a", "l", "l", "-", "i", "t", "e", "m", "s">>

S_sep == <<":", ":">>

\* Selector "ul.all-items li a": the <a> elements under an <li> that is under
\* a <ul> whose class list holds all-items, in document order
RECURSIVE SelectAnchors(_, _, _)
RECURSIVE AnchorsOfKids(_, _, _)
SelectAnchors(node, in_ul, in_li) ==
    IF node.kind # "elem" THEN <<>>
    ELSE (IF node.name = "a" /\ in_li THEN <<node>> ELSE <<>>)
         \o AnchorsOfKids(
                node.kids,
                in_ul \/ (node.name = "ul"
                          /\ \E i \in 1..Len(SplitWhitespace(node.class)) :
                                SplitWhitespace(node.class)[i] = S_all_items),
                in_li \/ (node.name = "li" /\ in_ul))

AnchorsOfKids(kids, in_ul, in_li) ==
    IF Len(kids) = 0 THEN <<>>
    ELSE SelectAnchors(kids[1], in_ul, in_li)
         \o AnchorsOfKids(Tail(kids), in_ul, in_li)

\* HashMap::insert on a map kept as a sequence of entries with distinct keys
MapInsert(mappings, key, val) ==
    IF \E i \in 1..Len(mappings) : mappings[i].key = key
    THEN [i \in 1..Len(mappings) |->
            IF mappings[i].key = key THEN [key |-> key, val |-> val]
            ELSE mappings[i]]
    ELSE Append(mappings, [key |-> key, val |-> val])

\* HashMap::get: the values (none or one) under key
MapGet(mappings, key) ==
    LET hits == SelectSeq(mappings, LAMBDA e : e.key = key)
    IN  IF Len(hits) = 0 THEN <<>> ELSE <<hits[1].val>>

NoItemsMessage ==
    <<"failed to find item mappings in documentation - no items found">>

NoHrefMessage == <<"href attribute not found in item link">>

\* the loop of extract_item_mappings from anchor anchors[1] on, and the
\* final emptiness check
RECURSIVE ExtractFrom(_, _, _)
ExtractFrom(anchors, crate_name, mappings) ==
    IF Len(anchors) = 0 THEN
        IF Len(mappings) = 0
        THEN Err("NoItemsFound", NoItemsMessage, <<>>)
        ELSE Ok(mappings)
    ELSE IF Len(anchors[1].href) = 0 THEN
        Err("HrefNotFound", NoHrefMessage, <<>>)
    ELSE ExtractFrom(
            Tail(anchors), crate_name,
            MapInsert(mappings,
                      crate_name \o S_sep \o ElementText(anchors[1]),
                      anchors[1].href[1]))

\* extract_item_mappings without the final emptiness check
extract_item_mappings_allow_empty(crate_name, html) ==
    LET r == ExtractFrom(SelectAnchors(html, FALSE, FALSE), crate_name, <<>>)
    IN  IF r.err.kind = "NoItemsFound" THEN Ok(<<>>) ELSE r

extract_item_mappings(crate_name, html) ==
    ExtractFrom(SelectAnchors(html, FALSE, FALSE), crate_name, <<>>)

----------------------------------------------------------------------------
(* build::format_all_md.                                                   *)

S_list_heading ==
    <<"#", " ", "L", "i", "s", "t", " ", "o", "f", " ", "a", "l", "l", " ",
      "i", "t", "e", "m", "s">>
S_h3 ==
    <<"#", "#", "#", " ">>
S_item ==
    <<"-", " ">>
S_usage ==
    <<"#", "#", " ", "U", "s", "a", "g", "e">>
S_usage_intro ==
    <<"T", "o", " ", "v", "i", "e", "w", " ", "d", "o", "c", "u", "m", "e",
      "n", "t", "a", "t", "i", "o", "n", " ", "f", "o", "r", " ", "a", " ",
      "s", "p", "e", "c", "i", "f", "i", "c", " ", "i", "t", "e", "m", ",",
      " ", "u", "s", "e", " ", "t", "h", "e", " ", Backtick, "s", "h", "o",
      "w", Backtick, " ", "c", "o", "m", "m", "a", "n", "d", ":">>
S_fence_shell ==
    <<Backtick, Backtick, Backtick, "s", "h", "e", "l", "l">>
S_fence ==
    <<Backtick, Backtick, Backtick>>
S_usage_syntax ==
    <<"c", "a", "r", "g", "o", " ", "t", "x", "t", " ", "s", "h", "o", "w",
      " ", "<", "I", "T", "E", "M", "_", "P", "A", "T", "H", ">">>
S_examples ==
    <<"E", "x", "a", "m", "p", "l", "e", "s", ":">>
S_show ==
    <<"c", "a", "r", "g", "o", " ", "t", "x", "t", " ", "s", "h", "o", "w",
      " ">>
S_some_item ==
    <<"S", "o", "m", "e", "I", "t", "e", "m">>

\* the loop over the lines after the first: [result, first_items, in_section]
RECURSIVE FormatLines(_, _, _)
FormatLines(lines, crate_name, acc) ==
    IF Len(lines) = 0 THEN acc
    ELSE LET line == lines[1]
         IN  FormatLines(
                Tail(lines), crate_name,
                IF StartsWith(line, S_h3) THEN
                    [acc EXCEPT !.result = Append(@, line), !.in_section = TRUE]
                ELSE IF StartsWith(line, S_item) THEN
                    LET item == Tail_(line, Len(S_item) + 1)
                    IN  [result |->
                            Append(acc.result, S_item \o crate_name \o S_sep \o item),
                         first_items |->
                            IF acc.in_section
                            THEN Append(acc.first_items, crate_name \o S_sep \o item)
                            ELSE acc.first_items,
                         in_section |-> FALSE]
                ELSE [acc EXCEPT !.result = Append(@, line)])

\* "cargo txt show <item>" for each of the items
UsageExamples(items) == [i \in 1..Len(items) |-> S_show \o items[i]]

format_all_md(crate_name, content) ==
    LET lines == Lines(content)
        head  == << <<"#", " ">> \o crate_name, <<>> >>
    IN  IF Len(lines) = 0 THEN Join(head, <<"\n">>)
        ELSE
        LET first == IF StartsWith(lines[1], S_list_heading)
                     THEN Tail_(lines[1], 3) ELSE lines[1]
            acc   == FormatLines(Tail(lines), crate_name,
                                 [result |-> Append(head, first),
                                  first_items |-> <<>>,
                                  in_section |-> FALSE])
            usage == << <<>>, S_usage, <<>>, S_usage_intro, <<>>, S_fence_shell,
                        S_usage_syntax, S_fence, <<>>, S_examples, <<>>,
                        S_fence_shell >>
            shown == SubSeq(acc.first_items, 1,
                            IF Len(acc.first_items) < 3
                            THEN Len(acc.first_items) ELSE 3)
            fallback == IF Len(acc.first_items) = 0
                        THEN << S_show \o crate_name \o S_sep \o S_some_item >>
                        ELSE <<>>
        IN  Join(acc.result \o usage \o UsageExamples(shown) \o fallback
                 \o <<S_fence>>,
                 <<"\n">>)

----------------------------------------------------------------------------
(* The variables of a specification that is not running.                   *)

TextIdle ==
    /\ text = <<>>
    /\ processed = [done |-> FALSE, out |-> <<>>]

ConvertIdle ==
    /\ document = Txt(<<>>)
    /\ converted = [done |-> FALSE, ok |-> FALSE, val |-> <<>>, err |-> NoError]

CommandIdle ==
    /\ dependencies = {}
    /\ site = "none"
    /\ target = [doc |-> {}, dirs |-> {}, files |-> <<>>]
    /\ outcome = [cmd |-> "none"]

IndexIdle ==
    /\ listing = [anchors |-> <<>>, html |-> Txt(<<>>)]
    /\ extracted = [done |-> FALSE, crate_name |-> <<>>, ok |-> FALSE,
                    val |-> <<>>, err |-> NoError]

AliasIdle ==
    /\ alias = [item |-> <<>>, alias_data |-> <<>>, crate_index |-> <<>>,
                namespace |-> <<>>]
    /\ rendered = [done |-> FALSE, out |-> <<>>]

MarkdownIdle ==
    /\ subject = <<>>
    /\ product = [done |-> FALSE]

----------------------------------------------------------------------------
(* SpecText: process_text_links applied to every bounded text.             *)

TextAlphabet == {"[", "]", "a", " "}

Brackets == {"[", "]"}

Texts == SeqsUpTo(TextAlphabet, MaxTextLen) \cup SeqsUpTo(Brackets, MaxBracketLen)

TextInit ==
    /\ text \in Texts
    /\ processed = [done |-> FALSE, out |-> <<>>]
    /\ ConvertIdle
    /\ IndexIdle
    /\ CommandIdle
    /\ AliasIdle
    /\ MarkdownIdle

ProcessText ==
    /\ ~processed.done
    /\ processed' = [done |-> TRUE, out |-> process_text_links(text)]
    /\ UNCHANGED <<text, convertVars, indexVars, commandVars, aliasVars, markdownVars>>

TextNext == ProcessText

SpecText == TextInit /\ [][TextNext]_vars

----------------------------------------------------------------------------
(* SpecConvert: convert applied to every bounded document.                 *)

\* the blocks a document body is made of
Blocks ==
    { Elem("h1", <<Txt(<<"T">>)>>),
      Elem("p", <<Txt(<<"\n", " ", "a", " ", " ">>), Elem("code", <<Txt(<<"c">>)>>)>>),
      Elem("ul", <<Elem("li", <<Txt(<<"x">>)>>), Elem("li", <<Txt(<<"y">>)>>)>>),
      Elem("script", <<Txt(<<"j", "s">>)>>),
      Elem("pre", <<Elem("code", <<Txt(<<"f", "n">>)>>)>>),
      Elem("dl", <<Elem("dt", <<Txt(<<"k">>)>>), Elem("dd", <<Txt(<<"v">>)>>)>>),
      ElemFull("span", "", S_tooltip, <<>>, <<Txt(<<"i">>)>>),
      Txt(<<"[", "a", "]", "[", "b", "]">>),
      \* code blocks: an index expression; highlighted tokens with a space
      Elem("pre", <<Elem("code", <<Txt(<<"a", "[", "i", "]", "[", "j", "]">>)>>)>>),
      Elem("pre", <<Elem("code", <<Elem("span", <<Txt(<<"f">>)>>), Txt(<<" ">>),
                                   Elem("span", <<Txt(<<"g">>)>>)>>)>>),
      \* containers whose children are not all items
      Elem("ul", <<Txt(<<"u">>), Elem("li", <<Txt(<<"w">>)>>)>>),
      Elem("dl", <<Elem("div", <<Elem("dt", <<Txt(<<"q">>)>>),
                                 Elem("dd", <<Txt(<<"r">>)>>)>>)>>),
      Elem("table", <<Elem("td", <<Txt(<<"c", "e", "l", "l">>)>>)>>),
      \* a term without a description followed by a term with one
      Elem("dl", <<Elem("dt", <<Txt(<<"m">>)>>), Elem("dt", <<Txt(<<"n">>)>>),
                   Elem("dd", <<Txt(<<"o">>)>>)>>),
      \* elements of the skip list in and around a list
      Elem("ul", <<ElemFull("li", "", S_tooltip, <<>>, <<Txt(<<"h">>)>>),
                   Elem("li", <<Txt(<<"s">>)>>)>>),
      Elem("h2", <<Txt(<<"P">>), ElemFull("button", "copy-path", <<>>, <<>>,
                                         <<Txt(<<"C", "o", "p", "y">>)>>)>>),
      \* anchors and their targets
      Elem("p", <<ElemFull("a", "", <<>>, <<S_src>>, <<Txt(<<"l">>)>>),
                  Txt(<<" ">>),
                  ElemFull("a", "", <<>>, <<S_tooltip>>, <<Elem("code", <<Txt(<<"d">>)>>)>>)>>),
      \* indented terms and descriptions, inside and outside a list
      Elem("dl", <<Elem("dt", <<Txt(<<"\n", "\t", "b", " ", " ", "e">>)>>),
                   Elem("dd", <<Txt(<<" ", "g", "\n", "\n", "z", " ">>)>>)>>),
      Elem("dt", <<Txt(<<"\n", "\t", "b", " ", " ", "e", "\n">>)>>),
      \* inline elements with nothing but whitespace between them
      Elem("h3", <<Elem("code", <<Txt(<<"V">>)>>), Txt(<<"\n">>),
                   Elem("em", <<Txt(<<"W">>)>>)>>),
      Elem("ul", <<Elem("li", <<Elem("strong", <<Txt(<<"X">>)>>), Txt(<<" ">>),
                                Elem("span", <<Txt(<<"Y">>)>>)>>)>>) }

Bodies == SeqsUpTo(Blocks, MaxBlocks)

\* the shapes of a page: the content root under <body>, the content root
\* nested in a wrapper, and no content root
PageShapes == {"main", "nested", "none"}

Page(shape, body) ==
    Elem("html",
         <<Elem("body",
                CASE shape = "main" -> <<Elem("main", body)>>
                  [] shape = "nested" -> <<Elem("div", <<Elem("main", body)>>)>>
                  [] OTHER -> <<Elem("div", body)>>)>>)

Documents == {Page(shape, body) : shape \in PageShapes, body \in Bodies}

ConvertInit ==
    /\ document \in Documents
    /\ converted = [done |-> FALSE, ok |-> FALSE, val |-> <<>>, err |-> NoError]
    /\ TextIdle
    /\ IndexIdle
    /\ CommandIdle
    /\ AliasIdle
    /\ MarkdownIdle

ConvertDocument ==
    /\ ~converted.done
    /\ converted' = [done |-> TRUE] @@ convert(document)
    /\ UNCHANGED <<document, textVars, indexVars, commandVars, aliasVars, markdownVars>>

ConvertNext == ConvertDocument

SpecConvert == ConvertInit /\ [][ConvertNext]_vars

----------------------------------------------------------------------------
(* The all-items page rustdoc writes, from the anchors it lists.  An       *)
(* anchor is [text, href, listed, deep]: href holds zero or one strings,   *)
(* listed says whether its list is an item-listing container               *)
(* (ul.all-items), deep whether a <span> stands between <li> and <a>.      *)

Anchor(t, href, listed, deep) ==
    [text |-> t, href |-> href, listed |-> listed, deep |-> deep]

AnchorElem(a) == ElemFull("a", "", <<>>, a.href, <<Txt(a.text)>>)

\* one list holding the anchors, each in an item of its own
AnchorList(anchors, listed) ==
    ElemFull("ul", "", IF listed THEN S_all_items ELSE <<>>, <<>>,
             [i \in 1..Len(anchors) |->
                Elem("li", IF anchors[i].deep
                           THEN <<Elem("span", <<AnchorElem(anchors[i])>>)>>
                           ELSE <<AnchorElem(anchors[i])>>)])

S_list_title ==
    <<"L", "i", "s", "t", " ", "o", "f", " ", "a", "l", "l", " ", "i", "t", "e", "m", "s">>

\* every anchor in a list of its own, under the page heading
ListingPage(anchors) ==
    Page("main",
         <<Elem("h1", <<Txt(S_list_title)>>)>>
         \o [i \in 1..Len(anchors) |-> AnchorList(<<anchors[i]>>, anchors[i].listed)])

----------------------------------------------------------------------------
(* SpecIndex: extract_item_mappings applied to every bounded listing.      *)

AnchorKinds ==
    { Anchor(<<"E">>, <<<<"s", ".", "E", ".", "h", "t", "m", "l">>>>, TRUE, FALSE),
      Anchor(<<"E">>, <<<<"t", ".", "E", ".", "h", "t", "m", "l">>>>, TRUE, FALSE),
      Anchor(<<"m", ":", ":", "F">>, <<<<"m", "/", "f", ".", "F", ".", "h", "t", "m", "l">>>>, TRUE, TRUE),
      Anchor(<<"G">>, <<>>, TRUE, FALSE),
      Anchor(<<"N">>, <<<<"n", ".", "h", "t", "m", "l">>>>, FALSE, FALSE) }

IndexCrateNames == {<<"a", "_", "b">>, <<"c">>}

IndexInit ==
    /\ \E anchors \in SeqsUpTo(AnchorKinds, MaxAnchors) :
            listing = [anchors |-> anchors, html |-> ListingPage(anchors)]
    /\ extracted = [done |-> FALSE, crate_name |-> <<>>, ok |-> FALSE,
                    val |-> <<>>, err |-> NoError]
    /\ TextIdle
    /\ ConvertIdle
    /\ CommandIdle
    /\ AliasIdle
    /\ MarkdownIdle

ExtractMappings ==
    /\ ~extracted.done
    /\ \E crate_name \in IndexCrateNames :
            extracted' = [done |-> TRUE, crate_name |-> crate_name]
                         @@ extract_item_mappings(crate_name, listing.html)
    /\ UNCHANGED <<listing, textVars, convertVars, commandVars, aliasVars, markdownVars>>

IndexNext == ExtractMappings

SpecIndex == IndexInit /\ [][IndexNext]_vars

----------------------------------------------------------------------------
(* The project the commands run in: the dependencies cargo metadata        *)
(* reports under their declared names, and the pages cargo doc generates   *)
(* for a dependency.                                                       *)

HyphenCrate == <<"a", "-", "b">>
UnderscoreCrate == <<"c", "_", "d">>

\* the name rustdoc gives the directory of a library: hyphens become
\* underscores
CanonicalName(crate_name) == Replace(crate_name, <<"-">>, <<"_">>)

S_index_html == <<"i", "n", "d", "e", "x", ".", "h", "t", "m", "l">>
S_all_html == <<"a", "l", "l", ".", "h", "t", "m", "l">>
S_index_md == <<"i", "n", "d", "e", "x", ".", "m", "d">>
S_all_md == <<"a", "l", "l", ".", "m", "d">>
S_name == <<"n", "a", "m", "e">>
S_md == <<"m", "d">>
S_slash == <<"/">>
S_dot == <<".">>

H_struct_E == <<"s", ".", "E", ".", "h", "t", "m", "l">>
H_trait_E == <<"t", ".", "E", ".", "h", "t", "m", "l">>
H_fn_F == <<"m", "/", "f", ".", "F", ".", "h", "t", "m", "l">>
H_struct_G == <<"g", ".", "G", ".", "h", "t", "m", "l">>
H_enum_E == <<"s", ".", "E", ".", "h", "t", "m">>

A_E == Anchor(<<"E">>, <<H_struct_E>>, TRUE, FALSE)
A_E_trait == Anchor(<<"E">>, <<H_trait_E>>, TRUE, FALSE)
A_F == Anchor(<<"m", ":", ":", "F">>, <<H_fn_F>>, TRUE, TRUE)
A_G == Anchor(<<"G">>, <<H_struct_G>>, TRUE, FALSE)
A_unlisted == Anchor(<<"E">>, <<H_struct_E>>, FALSE, FALSE)
A_H == Anchor(<<"H">>, <<H_enum_E>>, TRUE, FALSE)

\* an item page: its heading and one paragraph
ItemPage(shape, title) ==
    Page(shape, <<Elem("h1", <<Txt(title)>>), Elem("p", <<Txt(
        <<"A", "n", " ", "i", "t", "e", "m", ".">>)>>)>>)

\* the all-items page: heading, one section title, the lists of anchors
AllPage(shape, lists) ==
    Page(shape,
         <<Elem("h1", <<Txt(S_list_title)>>), Elem("h3", <<Txt(
             <<"S", "t", "r", "u", "c", "t", "s">>)>>)>>
         \o [i \in 1..Len(lists) |-> AnchorList(lists[i].anchors, lists[i].listed)])

Listed(anchors) == [anchors |-> anchors, listed |-> TRUE]
Unlisted(anchors) == [anchors |-> anchors, listed |-> FALSE]

IndexPage == ItemPage("main", <<"C", "r", "a", "t", "e">>)

SiteNames ==
    {"good", "dup", "bad_item", "missing_item", "no_anchors", "no_container",
     "same_stem"}

\* the lists of the all-items page of a site
SiteLists(s) ==
    CASE s = "good" -> <<Listed(<<A_E, A_F>>)>>
      [] s = "dup" -> <<Listed(<<A_E>>), Listed(<<A_E_trait>>)>>
      [] s = "bad_item" -> <<Listed(<<A_E, A_F>>)>>
      [] s = "missing_item" -> <<Listed(<<A_E, A_G>>)>>
      [] s = "no_anchors" -> <<Listed(<<>>)>>
      [] s = "same_stem" -> <<Listed(<<A_E, A_H>>)>>
      [] OTHER -> <<Unlisted(<<A_unlisted>>)>>

\* the files of the documentation directory of a site, by relative path
SiteFiles(s) ==
    LET all == AllPage("main", SiteLists(s))
        top == (S_index_html :> IndexPage) @@ (S_all_html :> all)
        E == H_struct_E :> ItemPage("main",
            <<"S", "t", "r", "u", "c", "t", " ", "E">>)
        E_bad == H_struct_E :> ItemPage("none",
            <<"S", "t", "r", "u", "c", "t", " ", "E">>)
        E_trait == H_trait_E :> ItemPage("nested",
            <<"T", "r", "a", "i", "t", " ", "E">>)
        F == H_fn_F :> ItemPage("main",
            <<"F", "u", "n", "c", "t", "i", "o", "n", " ", "F">>)
        H == H_enum_E :> ItemPage("main", <<"E", "n", "u", "m", " ", "H">>)
    IN  CASE s = "good" -> top @@ E @@ F
          [] s = "dup" -> top @@ E @@ E_trait
          [] s = "bad_item" -> top @@ E_bad @@ F
          [] s = "same_stem" -> top @@ E @@ H
          [] OTHER -> top @@ E

LibraryNames == {HyphenCrate, CanonicalName(HyphenCrate), UnderscoreCrate}

----------------------------------------------------------------------------
(* The target directory and the run of a command.  target.doc holds the    *)
(* library directories under target/doc, target.dirs the directories and   *)
(* target.files the files under target/docmd, by path.  A run is threaded  *)
(* through its steps as a record: ok and err are its Result, trace the    *)
(* operations it attempted, out what it printed, val the value the last   *)
(* step produced, html_dir and page the values build keeps for later      *)
(* steps.  A failed step ends the run (the ? operator).                   *)

EmptyTarget == [doc |-> {}, dirs |-> {}, files |-> <<>>]

NoFault == [op |-> "none", path |-> <<>>]

\* the operations of the environment that can fail in a run
Faults ==
    {NoFault, [op |-> "metadata", path |-> <<>>], [op |-> "doc", path |-> <<>>],
     [op |-> "mkdir", path |-> <<>>], [op |-> "write", path |-> S_name]}

Start(t) ==
    [ok |-> TRUE, err |-> NoError, target |-> t, trace |-> <<>>, out |-> <<>>,
     val |-> <<>>, resolved |-> <<>>, html_dir |-> <<>>, page |-> <<>>]

\* the ? operator: the next step of a run that has not failed; the run is
\* evaluated once and handed to the step as a value
Then(c, step(_)) ==
    CHOOSE r \in {IF x.ok THEN step(x) ELSE x : x \in {c}} : TRUE

Step(c, op, path) ==
    [c EXCEPT !.trace = Append(@, [op |-> op, path |-> path, ok |-> TRUE])]

Fail(c, op, path, kind, msg) ==
    [c EXCEPT !.ok = FALSE,
              !.err = [kind |-> kind, text |-> msg],
              !.trace = Append(@, [op |-> op, path |-> path, ok |-> FALSE])]

\* PathBuf::join
JoinPath(dir, rel) == dir \o S_slash \o rel

\* the last position of character ch in s, or 0
LastIndexOf(s, ch) ==
    LET hits == {i \in 1..Len(s) : s[i] = ch}
    IN  IF hits = {} THEN 0 ELSE CHOOSE i \in hits : \A j \in hits : j <= i

\* Path::parent
Parent(path) ==
    LET k == LastIndexOf(path, "/") IN IF k = 0 THEN <<>> ELSE SubSeq(path, 1, k - 1)

\* Path::with_extension: what follows the last dot of the file name is
\* replaced; a file name without a dot, or with only a leading dot, gets the
\* extension appended
with_extension(path, ext) ==
    LET k == LastIndexOf(path, "/")
        d == LastIndexOf(path, ".")
    IN  IF d > k + 1
        THEN SubSeq(path, 1, d) \o ext
        ELSE path \o S_dot \o ext

\* a directory and every directory above it
Ancestors(dir) ==
    {SubSeq(dir, 1, k - 1) : k \in {i \in 1..Len(dir) : dir[i] = "/"}} \cup {dir}

\* println!
PrintLine(c, line) == [c EXCEPT !.out = Append(@, line)]

S_generated ==
    <<"G", "e", "n", "e", "r", "a", "t", "e", "d", " ", "m", "a", "r",
      "k", "d", "o", "w", "n", ":", " ">>

----------------------------------------------------------------------------
(* cargo.rs                                                                *)

\* cargo::metadata: the run of `cargo metadata`
metadata(c, fault) ==
    IF fault.op = "metadata"
    THEN Fail(c, "metadata", <<>>, "CargoMetadataExecFailed", <<>>)
    ELSE Step(c, "metadata", <<>>)

\* cargo::doc: the run of `cargo doc --package <crate> --no-deps`; it writes
\* the pages of the library under its canonical name and returns that
\* directory
doc(c, crate_name, fault) ==
    IF fault.op = "doc"
    THEN Fail(c, "doc", crate_name, "CargoDocExecFailed", crate_name)
    ELSE [Step(c, "doc", crate_name) EXCEPT
            !.target.doc = @ \cup {CanonicalName(crate_name)},
            !.html_dir = CanonicalName(crate_name)]

----------------------------------------------------------------------------
(* The file operations of the commands.                                    *)

\* fs::read_to_string of a page under target/doc
ReadHtml(c, html_dir, rel, kind) ==
    IF html_dir \in c.target.doc /\ rel \in DOMAIN SiteFiles(site)
    THEN [Step(c, "read", JoinPath(html_dir, rel)) EXCEPT !.val = SiteFiles(site)[rel]]
    ELSE Fail(c, "read", JoinPath(html_dir, rel), kind, JoinPath(html_dir, rel))

\* fs::read_to_string of a file under target/docmd
ReadFile(c, path, kind) ==
    IF path \in DOMAIN c.target.files
    THEN [Step(c, "read", path) EXCEPT !.val = c.target.files[path]]
    ELSE Fail(c, "read", path, kind, path)

\* fs::create_dir_all unless the directory exists
EnsureDir(c, dir, fault) ==
    IF dir \in c.target.dirs THEN c
    ELSE IF fault.op = "mkdir"
    THEN Fail(c, "mkdir", dir, "CreateDirFailed", dir)
    ELSE [Step(c, "mkdir", dir) EXCEPT !.target.dirs = @ \cup Ancestors(dir)]

\* fs::write of a file under target/docmd
WriteFile(c, dir, rel, content, fault) ==
    LET path == JoinPath(dir, rel)
    IN  IF fault.op = "write" /\ fault.path = rel
        THEN Fail(c, "write", path, "WriteFailed", path)
        ELSE [Step(c, "write", path) EXCEPT
                !.target.files = (path :> content) @@ @]

\* html2md::convert, of the page just read, as a step of a run
Convert(c, path) ==
    CHOOSE next \in
        {IF r.ok
         THEN [Step(c, "convert", path) EXCEPT !.val = r.val]
         ELSE Fail(c, "convert", path, r.err.kind, r.err.text) :
            r \in {convert(c.val)}} : TRUE

----------------------------------------------------------------------------
(* commands/build.rs                                                       *)

\* a failure that is no operation of the environment (bail!)
Bail(c, kind, msg) ==
    [c EXCEPT !.ok = FALSE, !.err = [kind |-> kind, text |-> msg]]

NotInstalledMessage(crate_name) ==
    <<"C", "r", "a", "t", "e", " ", "'">> \o crate_name
    \o
        <<"'", " ", "i", "s", " ", "n", "o", "t", " ", "a", "n", " ", "i",
          "n", "s", "t", "a", "l", "l", "e", "d", " ", "d", "e", "p", "e",
          "n", "d", "e", "n", "c", "y", ".">>

\* build::extract_item_mappings, of the page the run keeps, as a step
Extract(c, crate_name, path) ==
    CHOOSE next \in
        {IF r.ok
         THEN [Step(c, "extract", path) EXCEPT !.val = r.val]
         ELSE Fail(c, "extract", path, r.err.kind, r.err.text) :
            r \in {extract_item_mappings(crate_name, c.page)}} : TRUE

\* the first value only of the map in the order the HashMap iterates them
ValuesFirstOnly(mappings, order) ==
    IF Len(mappings) = 0 THEN <<>>
    ELSE IF Len(order) = Len(mappings) THEN <<mappings[order[1]].val>>
    ELSE <<mappings[1].val>>

\* the values of the map in the order the HashMap iterates them
Values(mappings, order) ==
    IF Len(order) = Len(mappings)
    THEN [i \in 1..Len(mappings) |-> mappings[order[i]].val]
    ELSE [i \in 1..Len(mappings) |-> mappings[i].val]

\* one turn of the item loop of build: read, convert, create the parent
\* directory, write
BuildItem(c0, output_dir, html_relative_path, fault) ==
    Then(Then(Then(
        ReadHtml(c0, c0.html_dir, html_relative_path, "ReadFailed"),
        LAMBDA c : Convert(c, JoinPath(c.html_dir, html_relative_path))),
        LAMBDA c : EnsureDir(c, Parent(JoinPath(output_dir,
                                with_extension(html_relative_path, S_md))), fault)),
        LAMBDA c : WriteFile(c, output_dir, with_extension(html_relative_path, S_md),
                             c.val, fault))

\* the item loop going on to the next item after a failed one
RECURSIVE BuildItemsSkipFailed(_, _, _, _)
BuildItemsSkipFailed(c0, output_dir, hrefs, fault) ==
    IF Len(hrefs) = 0 THEN c0
    ELSE CHOOSE r \in
            {BuildItemsSkipFailed([c EXCEPT !.ok = TRUE, !.err = NoError],
                                  output_dir, Tail(hrefs), fault) :
                c \in {BuildItem(c0, output_dir, hrefs[1], fault)}} : TRUE

\* the item loop of build: the first failure ends it
RECURSIVE BuildItems(_, _, _, _)
BuildItems(c0, output_dir, hrefs, fault) ==
    IF Len(hrefs) = 0 THEN c0
    ELSE Then(BuildItem(c0, output_dir, hrefs[1], fault),
              LAMBDA c : BuildItems(c, output_dir, Tail(hrefs), fault))

save_crate_path_name(c, output_dir, path_name, fault) ==
    WriteFile(c, output_dir, S_name, path_name, fault)

\* the steps of build in the order of the code; output_dir is crate_name
\* under target/docmd, crate_dir_name the file name of html_dir
BuildStep(c, i, crate_name, fault, order) ==
    CASE i = 1 -> metadata(c, fault)
      [] i = 2 ->
            IF crate_name \notin dependencies
            THEN Bail(c, "NotInstalledDependency", NotInstalledMessage(crate_name))
            ELSE doc(c, crate_name, fault)
      [] i = 3 -> ReadHtml(c, c.html_dir, S_index_html, "ReadFailed")
      [] i = 4 -> Convert(c, JoinPath(c.html_dir, S_index_html))
      [] i = 5 -> EnsureDir(c, crate_name, fault)
      [] i = 6 -> WriteFile(c, crate_name, S_index_md, c.val, fault)
      [] i = 7 -> PrintLine(c, S_generated \o JoinPath(crate_name, S_index_md))
      [] i = 8 -> ReadHtml(c, c.html_dir, S_all_html, "ReadFailed")
      [] i = 9 -> Convert([c EXCEPT !.page = c.val], JoinPath(c.html_dir, S_all_html))
      [] i = 10 ->
            WriteFile(c, crate_name, S_all_md, format_all_md(c.html_dir, c.val), fault)
      [] i = 11 -> PrintLine(c, S_generated \o JoinPath(crate_name, S_all_md))
      [] i = 12 -> Extract(c, c.html_dir, JoinPath(c.html_dir, S_all_html))
      [] i = 13 -> BuildItems(c, crate_name, Values(c.val, order), fault)
      [] OTHER -> save_crate_path_name(c, crate_name, c.html_dir, fault)

\* build from step i on
RECURSIVE BuildFrom(_, _, _, _, _)
BuildFrom(c0, i, crate_name, fault, order) ==
    IF i = 14 THEN BuildStep(c0, i, crate_name, fault, order)
    ELSE Then(BuildStep(c0, i, crate_name, fault, order),
              LAMBDA c : BuildFrom(c, i + 1, crate_name, fault, order))

build(c0, crate_name, fault, order) == BuildFrom(c0, 1, crate_name, fault, order)

\* the wrapper that builds whether or not all.md is there
if_needed_always_build(c0, crate_name, fault, order) ==
    Then(metadata(c0, fault), LAMBDA c : build(c, crate_name, fault, order))

if_needed(c0, crate_name, fault, order) ==
    Then(metadata(c0, fault), LAMBDA c :
        IF JoinPath(crate_name, S_all_md) \in DOMAIN c.target.files THEN c
        ELSE build(c, crate_name, fault, order))

----------------------------------------------------------------------------
(* commands/show.rs                                                        *)

InvalidItemPathMessage(item_path) ==
        <<"i", "n", "v", "a", "l", "i", "d", " ", "i", "t", "e", "m", " ",
          "p", "a", "t", "h", " ", "'">> \o item_path
    \o
        <<"'", ".", " ", "E", "x", "p", "e", "c", "t", "e", "d", " ", "f",
          "o", "r", "m", "a", "t", ":", " ", "<", "c", "r", "a", "t", "e",
          ">", " ", "o", "r", " ", "<", "c", "r", "a", "t", "e", ">", ":",
          ":", "<", "i", "t", "e", "m", ">", " ", "(", "e", ".", "g", ".",
          ",", " ", "'", "s", "e", "r", "d", "e", "'", " ", "o", "r", " ",
          "'", "s", "e", "r", "d", "e", ":", ":", "E", "r", "r", "o", "r",
          "'", ")", ".">>

\* the split without the check of the first component
parse_item_path_unchecked(item_path) ==
    LET parts == Split(item_path, S_sep)
    IN  Ok([crate_name |-> parts[1],
            item |-> IF Len(parts) = 1 THEN <<>> ELSE <<Join(Tail(parts), S_sep)>>])

\* item is an Option: a sequence of no or one string
parse_item_path(item_path) ==
    LET parts == Split(item_path, S_sep)
    IN  IF Len(parts[1]) = 0
        THEN Err("InvalidItemPath", InvalidItemPathMessage(item_path),
                 [crate_name |-> <<>>, item |-> <<>>])
        ELSE Ok([crate_name |-> parts[1],
                 item |-> IF Len(parts) = 1 THEN <<>>
                          ELSE <<Join(Tail(parts), S_sep)>>])

\* str::trim
Trim(s) ==
    LET keep == {i \in 1..Len(s) : ~IsWhitespace(s[i])}
    IN  IF keep = {} THEN <<>>
        ELSE SubSeq(s, CHOOSE i \in keep : \A j \in keep : i <= j,
                       CHOOSE i \in keep : \A j \in keep : j <= i)

read_crate_path_name(c0, crate_name, fault) ==
    Then(Then(
        metadata(c0, fault),
        LAMBDA c : ReadFile(c, JoinPath(crate_name, S_name), "ReadNameFailed")),
        LAMBDA c : [c EXCEPT !.val = Trim(@)])

NotResolvedMessage(user_item_path, crate_name) ==
        <<"c", "o", "u", "l", "d", " ", "n", "o", "t", " ", "r", "e", "s",
          "o", "l", "v", "e", " ", "i", "t", "e", "m", " ", "p", "a", "t",
          "h", " ", "'">> \o user_item_path
    \o
        <<"'", ".", " ", "P", "l", "e", "a", "s", "e", " ", "e", "n", "s",
          "u", "r", "e", " ", "t", "h", "e", " ", "i", "t", "e", "m", " ",
          "e", "x", "i", "s", "t", "s", " ", "i", "n", " ", "t", "h", "e",
          " ", "c", "r", "a", "t", "e", " ", "a", "n", "d", " ", "t", "r",
          "y", ":", " ", Backtick, "c", "a", "r", "g", "o", " ", "t", "x",
          "t", " ", "b", "u", "i", "l", "d", " ">>
    \o crate_name \o <<Backtick>>

\* the lookup in the item index and the path of the Markdown file
Lookup(c, parsed, user_item_path, named) ==
    LET full_item_path == parsed.crate_name \o S_sep \o parsed.item[1]
        html_path == MapGet(c.val, full_item_path)
    IN  IF Len(html_path) = 0
        THEN Bail(c, "ItemPathNotResolved", NotResolvedMessage(user_item_path, named))
        ELSE [c EXCEPT !.val = JoinPath(parsed.crate_name,
                                        with_extension(html_path[1], S_md))]

\* the resolution with the directory name of the library in the error text
resolve_markdown_path_dir_name(c0, parsed, path_name, fault) ==
    Then(metadata(c0, fault), LAMBDA c1 :
        IF Len(parsed.item) = 0
        THEN [c1 EXCEPT !.val = JoinPath(parsed.crate_name, S_index_md)]
        ELSE Then(Then(
                ReadHtml(c1, path_name, S_all_html, "ReadIndexFailed"),
                LAMBDA c : Extract([c EXCEPT !.page = c.val], parsed.crate_name,
                                   JoinPath(path_name, S_all_html))),
                LAMBDA c : Lookup(c, parsed, path_name \o S_sep \o parsed.item[1],
                                  path_name)))

resolve_markdown_path(c0, parsed, path_name, fault) ==
    Then(metadata(c0, fault), LAMBDA c1 :
        IF Len(parsed.item) = 0
        THEN [c1 EXCEPT !.val = JoinPath(parsed.crate_name, S_index_md)]
        ELSE Then(Then(
                ReadHtml(c1, path_name, S_all_html, "ReadIndexFailed"),
                LAMBDA c : Extract([c EXCEPT !.page = c.val], parsed.crate_name,
                                   JoinPath(path_name, S_all_html))),
                LAMBDA c : Lookup(c, parsed,
                                  parsed.crate_name \o S_sep \o parsed.item[1],
                                  parsed.crate_name)))

\* the end of show and list: read the resolved file and print it; the
\* resolved path is kept in the run
PrintFile(c0) ==
    Then(ReadFile([c0 EXCEPT !.resolved = c0.val], c0.val, "ReadMarkdownFailed"),
         LAMBDA c : PrintLine(c, c.val))

\* show after parse_item_path has succeeded
ShowParsed(t, parsed, fault, order) ==
    Then(Then(Then(
        if_needed(Start(t), parsed.crate_name, fault, order),
        LAMBDA c : read_crate_path_name(c, parsed.crate_name, fault)),
        LAMBDA c : resolve_markdown_path(c, parsed, c.val, fault)),
        LAMBDA c : PrintFile(c))

show(t, item_path, fault, order) ==
    CHOOSE r \in
        {IF parsed.ok THEN ShowParsed(t, parsed.val, fault, order)
         ELSE Bail(Start(t), parsed.err.kind, parsed.err.text) :
            parsed \in {parse_item_path(item_path)}} : TRUE

----------------------------------------------------------------------------
(* commands/list.rs                                                        *)

OnlyCrateNamesMessage(crate_name) ==
        <<"t", "h", "e", " ", "l", "i", "s", "t", " ", "c", "o", "m", "m",
          "a", "n", "d", " ", "o", "n", "l", "y", " ", "a", "c", "c", "e",
          "p", "t", "s", " ", "c", "r", "a", "t", "e", " ", "n", "a", "m",
          "e", "s", ".", " ", "U", "s", "e", " ", "'", "c", "a", "r", "g",
          "o", " ", "t", "x", "t", " ", "s", "h", "o", "w", " ">>
    \o crate_name \o
        <<"'", " ", "t", "o", " ", "v", "i", "e", "w", " ", "s", "p", "e",
          "c", "i", "f", "i", "c", " ", "i", "t", "e", "m", "s", ".">>

\* the validation that looks for the empty name only
validate_crate_name_empty_only(crate_name) ==
    IF Len(crate_name) = 0
    THEN Err("EmptyCrateName",
        <<"c", "r", "a", "t", "e", " ", "n", "a", "m", "e", " ", "c", "a",
          "n", "n", "o", "t", " ", "b", "e", " ", "e", "m", "p", "t", "y">>, <<>>)
    ELSE Ok(<<>>)

validate_crate_name(crate_name) ==
    IF Contains(crate_name, S_sep)
    THEN Err("ItemPathGiven", OnlyCrateNamesMessage(crate_name), <<>>)
    ELSE IF Len(crate_name) = 0
    THEN Err("EmptyCrateName",
        <<"c", "r", "a", "t", "e", " ", "n", "a", "m", "e", " ", "c", "a",
          "n", "n", "o", "t", " ", "b", "e", " ", "e", "m", "p", "t", "y">>, <<>>)
    ELSE Ok(<<>>)

resolve_all_md_path(c0, crate_name, fault) ==
    Then(metadata(c0, fault), LAMBDA c : [c EXCEPT !.val = JoinPath(crate_name, S_all_md)])

\* list after validate_crate_name has succeeded
ListValid(t, crate_name, fault, order) ==
    Then(Then(Then(
        if_needed(Start(t), crate_name, fault, order),
        LAMBDA c : read_crate_path_name(c, crate_name, fault)),
        LAMBDA c : resolve_all_md_path(c, crate_name, fault)),
        LAMBDA c : PrintFile(c))

list(t, crate_name, fault, order) ==
    CHOOSE r \in
        {IF valid.ok THEN ListValid(t, crate_name, fault, order)
         ELSE Bail(Start(t), valid.err.kind, valid.err.text) :
            valid \in {validate_crate_name(crate_name)}} : TRUE

----------------------------------------------------------------------------
(* Spec: the commands build, show and list run, in any order and with any  *)
(* argument, in a project with one dependency.                             *)

CrateNames == LibraryNames

BuildArgs == CrateNames

ShowArgs ==
    CrateNames
    \cup {n \o S_sep \o <<"E">> : n \in CrateNames}
    \cup {n \o S_sep \o <<"N", "o", "p", "e">> : n \in dependencies}
    \cup {UnderscoreCrate \o S_sep \o <<"m", ":", ":", "F">>}
    \cup {<<>>, S_sep, S_sep \o
        <<"E">>, UnderscoreCrate \o S_sep \o <<"E">> \o S_sep}

ListArgs ==
    {HyphenCrate, UnderscoreCrate, <<>>, UnderscoreCrate \o S_sep \o <<"E">>,
     S_sep \o UnderscoreCrate, UnderscoreCrate \o S_sep, S_sep,
     HyphenCrate \o S_sep \o S_sep \o <<"E">>}

\* the orders in which the HashMap of the item index can iterate
Orders ==
    LET n == CHOOSE k \in {IF r.ok THEN Len(r.val) ELSE 0 :
                r \in {extract_item_mappings(<<>>, SiteFiles(site)[S_all_html])}} : TRUE
    IN  {f \in [1..n -> 1..n] : \A i, j \in 1..n : f[i] = f[j] => i = j}

NoOutcome ==
    [cmd |-> "none", arg |-> <<>>, ok |-> FALSE, err |-> NoError, out |-> <<>>,
     trace |-> <<>>, resolved |-> <<>>]

\* what a finished run leaves for the caller to see
Finish(cmd, arg, c) ==
    [cmd |-> cmd, arg |-> arg, ok |-> c.ok, err |-> c.err, out |-> c.out,
     trace |-> c.trace, resolved |-> c.resolved]

Init ==
    /\ dependencies \in {{HyphenCrate}, {UnderscoreCrate}}
    /\ site \in SiteNames
    /\ target = EmptyTarget
    /\ outcome = NoOutcome
    /\ TextIdle
    /\ ConvertIdle
    /\ IndexIdle
    /\ AliasIdle
    /\ MarkdownIdle

Build ==
    \E crate_name \in BuildArgs, fault \in Faults, order \in Orders :
        \E c \in {build(Start(target), crate_name, fault, order)} :
            /\ target' = c.target
            /\ outcome' = Finish("build", crate_name, c)
            /\ UNCHANGED <<dependencies, site, textVars, convertVars, indexVars,
                           aliasVars, markdownVars>>

Show ==
    \E item_path \in ShowArgs, fault \in Faults, order \in Orders :
        \E c \in {show(target, item_path, fault, order)} :
            /\ target' = c.target
            /\ outcome' = Finish("show", item_path, c)
            /\ UNCHANGED <<dependencies, site, textVars, convertVars, indexVars,
                           aliasVars, markdownVars>>

List ==
    \E crate_name \in ListArgs, fault \in Faults, order \in Orders :
        \E c \in {list(target, crate_name, fault, order)} :
            /\ target' = c.target
            /\ outcome' = Finish("list", crate_name, c)
            /\ UNCHANGED <<dependencies, site, textVars, convertVars, indexVars,
                           aliasVars, markdownVars>>

Next == Build \/ Show \/ List

Spec == Init /\ [][Next]_vars

----------------------------------------------------------------------------
(* markdown/type_alias.rs and the helpers of markdown/utils.rs it calls.   *)
(* An Option is a sequence of zero or one values.  A value of              *)
(* rustdoc_types::Type, GenericArgs, GenericArg, ItemEnum or VariantKind   *)
(* is a record whose kind field names the variant.                         *)

None == <<>>

Some(x) == <<x>>

\* markdown::ITEM_HEADER_LEVEL
ITEM_HEADER_LEVEL == 1

S_comma == <<",", " ">>
S_lt == <<"<">>
S_gt == <<">">>
S_fn_pointer == <<"f", "n", "(", ".", ".", ".", ")">>
S_impl_trait == <<"i", "m", "p", "l", " ", "T", "r", "a", "i", "t">>
S_dyn_trait == <<"d", "y", "n", " ", "T", "r", "a", "i", "t">>
S_qualified_path ==
    <<"<", "q", "u", "a", "l", "i", "f", "i", "e", "d", " ", "p", "a",
      "t", "h", ">">>
S_parenthesized == <<"(", ".", ".", ".", ")">>
S_return_type_plain == <<"(", ".", ".", ")", " ", "-", ">", " ", "_">>
S_return_type == <<"(", ".", ".", ".", ")", " ", "-", ">", " ", "_">>
S_const == <<"c", "o", "n", "s", "t">>
S_code_fence == <<Backtick, Backtick, Backtick>>
S_rust == <<"r", "u", "s", "t">>
S_next_actions ==
    <<"#", "#", " ", "N", "e", "x", "t", " ", "A", "c", "t", "i", "o",
      "n", "s", "\n", "\n">>

\* markdown::utils::render_header
render_header(level, header_text) == Hashes(level) \o <<" ">> \o header_text

\* markdown::utils::render_code_block; language is an Option
render_code_block(content, language) ==
    S_code_fence \o (IF Len(language) > 0 THEN language[1] ELSE <<>>)
    \o <<"\n">> \o content \o <<"\n">> \o S_code_fence

\* str::trim_start
TrimStart(s) ==
    LET keep == {i \in 1..Len(s) : ~IsWhitespace(s[i])}
    IN  IF keep = {} THEN <<>>
        ELSE SubSeq(s, CHOOSE i \in keep : \A j \in keep : i <= j, Len(s))

\* one line of render_documentation: trimmed, a leading comment marker and
\* the whitespace after it taken off
StripMarker(line) ==
    IF StartsWith(Trim(line), <<"/", "/", "/">>)
    THEN TrimStart(SubSeq(Trim(line), 4, Len(Trim(line))))
    ELSE IF StartsWith(Trim(line), <<"/", "/">>)
    THEN TrimStart(SubSeq(Trim(line), 3, Len(Trim(line))))
    ELSE Trim(line)

\* markdown::utils::render_documentation; docs is an Option
render_documentation(docs) ==
    IF Len(docs) = 0 THEN <<>>
    ELSE IF Len(docs[1]) = 0 THEN <<>>
    ELSE Join([i \in 1..Len(Lines(docs[1])) |-> StripMarker(Lines(docs[1])[i])],
              <<"\n">>)

\* markdown::utils::render_next_actions_section
render_next_actions_section(actions) ==
    IF Len(actions) = 0 THEN <<>>
    ELSE S_next_actions
         \o Flatten([i \in 1..Len(actions) |-> <<"-", " ">> \o actions[i] \o <<"\n">>])

\* path.path.split("::").last(): the last segment of a path
BaseName(path) == Split(path, S_sep)[Len(Split(path, S_sep))]

RECURSIVE render_type_plain(_)
RECURSIVE render_generic_args(_)
RECURSIVE render_type(_)
RECURSIVE render_resolved_path_with_generics(_)

render_type_plain(type_) ==
    CASE type_.kind = "ResolvedPath" ->
            BaseName(type_.path)
            \o (IF Len(type_.args) > 0 THEN render_generic_args(type_.args[1]) ELSE <<>>)
      [] type_.kind = "Generic" -> type_.name
      [] type_.kind = "Primitive" -> type_.name
      [] type_.kind = "FunctionPointer" -> S_fn_pointer
      [] type_.kind = "Tuple" ->
            <<"(">>
            \o Join([i \in 1..Len(type_.types) |-> render_type_plain(type_.types[i])],
                    S_comma)
            \o <<")">>
      [] type_.kind = "Slice" -> <<"[">> \o render_type_plain(type_.type_) \o <<"]">>
      [] type_.kind = "Array" ->
            <<"[">> \o render_type_plain(type_.type_) \o <<";", " ">> \o type_.len \o <<"]">>
      [] type_.kind = "Pat" -> render_type_plain(type_.type_)
      [] type_.kind = "RawPointer" ->
            (IF type_.is_mutable THEN <<"*", "m", "u", "t", " ">> ELSE <<"*", "c", "o", "n", "s", "t", " ">>)
            \o render_type_plain(type_.type_)
      [] type_.kind = "BorrowedRef" ->
            <<"&">>
            \o (IF Len(type_.lifetime) > 0 THEN type_.lifetime[1] \o
                <<" ">> ELSE <<>>)
            \o (IF type_.is_mutable THEN <<"m", "u", "t", " ">> ELSE <<>>)
            \o render_type_plain(type_.type_)
      [] type_.kind = "ImplTrait" -> S_impl_trait
      [] type_.kind = "Infer" -> <<"_">>
      [] type_.kind = "DynTrait" -> S_dyn_trait
      [] OTHER -> S_qualified_path

render_generic_args(args) ==
    CASE args.kind = "AngleBracketed" ->
            IF Len(args.args) = 0 THEN <<>>
            ELSE S_lt
                 \o Join([i \in 1..Len(args.args) |->
                            CASE args.args[i].kind = "Type" ->
                                    render_type_plain(args.args[i].type_)
                              [] args.args[i].kind = "Lifetime" -> args.args[i].name
                              [] args.args[i].kind = "Const" -> S_const
                              [] OTHER -> <<"?">>],
                         S_comma)
                 \o S_gt
      [] args.kind = "Parenthesized" -> S_parenthesized
      [] OTHER -> S_return_type_plain

render_type(type_) ==
    CASE type_.kind = "ResolvedPath" -> render_resolved_path_with_generics(type_)
      [] type_.kind = "Generic" -> type_.name
      [] type_.kind = "Primitive" -> type_.name
      [] type_.kind = "FunctionPointer" -> S_fn_pointer
      [] type_.kind = "Tuple" ->
            <<"(">>
            \o Join([i \in 1..Len(type_.types) |-> render_type(type_.types[i])], S_comma)
            \o <<")">>
      [] type_.kind = "Slice" -> <<"[">> \o render_type(type_.type_) \o <<"]">>
      [] type_.kind = "Array" ->
            <<"[">> \o render_type(type_.type_) \o <<";", " ">> \o type_.len \o <<"]">>
      [] type_.kind = "Pat" -> render_type(type_.type_)
      [] type_.kind = "RawPointer" ->
            (IF type_.is_mutable THEN <<"*", "m", "u", "t", " ">> ELSE <<"*", "c", "o", "n", "s", "t", " ">>)
            \o render_type(type_.type_)
      [] type_.kind = "ImplTrait" -> S_impl_trait
      [] type_.kind = "Infer" -> <<"_">>
      [] type_.kind = "BorrowedRef" ->
            <<"&">>
            \o (IF Len(type_.lifetime) > 0 THEN type_.lifetime[1] \o
                <<" ">> ELSE <<>>)
            \o (IF type_.is_mutable THEN <<"m", "u", "t", " ">> ELSE <<>>)
            \o render_type(type_.type_)
      [] type_.kind = "DynTrait" -> S_dyn_trait
      [] OTHER -> S_qualified_path

\* the generic arguments of a path that render_resolved_path_with_generics
\* keeps (filter_map): types, lifetimes and constants
KeptArgs(args) == SelectSeq(args, LAMBDA a : a.kind \in {"Type", "Lifetime", "Const"})

render_resolved_path_with_generics(path) ==
    LET args_vec ==
            IF Len(path.args) = 0 THEN <<>>
            ELSE CASE path.args[1].kind = "AngleBracketed" ->
                        [i \in 1..Len(KeptArgs(path.args[1].args)) |->
                            CASE KeptArgs(path.args[1].args)[i].kind = "Type" ->
                                    render_type(KeptArgs(path.args[1].args)[i].type_)
                              [] KeptArgs(path.args[1].args)[i].kind = "Lifetime" ->
                                    KeptArgs(path.args[1].args)[i].name
                              [] OTHER -> S_const]
                   [] path.args[1].kind = "Parenthesized" -> <<S_parenthesized>>
                   [] OTHER -> <<S_return_type>>
    IN  IF Len(args_vec) = 0 THEN path.path
        ELSE path.path \o S_lt \o Join(args_vec, S_comma) \o S_gt

\* the generic arguments that are type parameters
TypeParams(args) ==
    SelectSeq(args, LAMBDA a : a.kind = "Type" /\ a.type_.kind = "Generic")

render_generic_type_params(args) ==
    IF args.kind = "AngleBracketed" /\ Len(TypeParams(args.args)) > 0
    THEN S_lt
         \o Join([i \in 1..Len(TypeParams(args.args)) |->
                    TypeParams(args.args)[i].type_.name], S_comma)
         \o S_gt
    ELSE <<>>

S_Ok == <<"O", "k">>
S_Err == <<"E", "r", "r">>

get_variant_type_from_alias(alias_type, variant_name) ==
    IF /\ alias_type.kind = "ResolvedPath"
       /\ Len(alias_type.args) > 0
       /\ alias_type.args[1].kind = "AngleBracketed"
    THEN IF variant_name = S_Ok
         THEN IF /\ Len(alias_type.args[1].args) > 0
                 /\ alias_type.args[1].args[1].kind = "Type"
              THEN render_type_plain(alias_type.args[1].args[1].type_)
              ELSE <<>>
         ELSE IF variant_name = S_Err
         THEN IF /\ Len(alias_type.args[1].args) > 1
                 /\ alias_type.args[1].args[2].kind = "Type"
              THEN render_type_plain(alias_type.args[1].args[2].type_)
              ELSE <<>>
         ELSE <<>>
    ELSE <<>>

\* HashMap::get on the crate index, a function from ids to items
Has(crate_index, id) == id \in DOMAIN crate_index

\* item.name.as_ref().map_or(default, String::as_str)
NameOr(item, default) == IF Len(item.name) > 0 THEN item.name[1] ELSE default

S_Enum == <<"E", "n", "u", "m">>
S_pub_enum == <<"p", "u", "b", " ", "e", "n", "u", "m", " ">>
S_open_brace == <<" ", "{", "\n">>
S_indent == <<" ", " ", " ", " ">>
S_pub_struct ==
    <<"p", "u", "b", " ", "s", "t", "r", "u", "c", "t", " ", "{", " ",
      ".", ".", ".", " ", "}">>
S_aliased_type ==
    <<"*", "*", "A", "l", "i", "a", "s", "e", "d", " ", "T", "y", "p",
      "e", ":", "*", "*", "\n", "\n">>

generate_enum_definition_code(item, enum_data, alias_type, crate_index) ==
    LET generics ==
            IF alias_type.kind = "ResolvedPath" /\ Len(alias_type.args) > 0
            THEN render_generic_type_params(alias_type.args[1])
            ELSE <<>>
        variant_line(variant_id) ==
            IF Has(crate_index, variant_id) /\ Len(crate_index[variant_id].name) > 0
            THEN IF Len(get_variant_type_from_alias(
                            alias_type, crate_index[variant_id].name[1])) = 0
                 THEN S_indent \o crate_index[variant_id].name[1] \o
                     <<",", "\n">>
                 ELSE S_indent \o crate_index[variant_id].name[1] \o <<"(">>
                      \o get_variant_type_from_alias(
                            alias_type, crate_index[variant_id].name[1])
                      \o <<")", ",", "\n">>
            ELSE <<>>
    IN  S_pub_enum \o NameOr(item, S_Enum) \o generics \o S_open_brace
        \o Flatten([i \in 1..Len(enum_data.variants) |->
                        variant_line(enum_data.variants[i])])
        \o <<"}">>

generate_struct_definition_code(item, struct_data) == S_pub_struct

generate_aliased_type_section(type_, crate_index) ==
    IF type_.kind # "ResolvedPath" THEN S_aliased_type
    ELSE IF ~Has(crate_index, type_.id) THEN S_aliased_type
    ELSE S_aliased_type
         \o render_code_block(
                CASE crate_index[type_.id].inner.kind = "Enum" ->
                        generate_enum_definition_code(
                            crate_index[type_.id], crate_index[type_.id].inner,
                            type_, crate_index)
                  [] crate_index[type_.id].inner.kind = "Struct" ->
                        generate_struct_definition_code(
                            crate_index[type_.id], crate_index[type_.id].inner)
                  [] OTHER -> render_type(type_),
                Some(S_rust))
         \o <<"\n">>

S_variants_heading ==
    <<"#", "#", " ", "V", "a", "r", "i", "a", "n", "t", "s", "\n",
      "\n">>
S_variants_columns ==
    <<"|", " ", "V", "a", "r", "i", "a", "n", "t", " ", "|", " ", "T",
      "y", "p", "e", " ", " ", " ", " ", "|", " ", "D", "e", "s", "c",
      "r", "i", "p", "t", "i", "o", "n", " ", " ", " ", " ", " ", " ",
      " ", " ", " ", " ", " ", " ", " ", " ", " ", " ", "|", "\n">>
S_variants_rule ==
    <<"|", " ", "-", "-", "-", "-", "-", "-", "-", " ", "|", " ", "-",
      "-", "-", "-", "-", "-", "-", " ", "|", " ", "-", "-", "-", "-",
      "-", "-", "-", "-", "-", "-", "-", "-", "-", "-", "-", "-", "-",
      "-", "-", "-", "-", "-", "-", "-", "-", "-", " ", "|", "\n">>
S_not_applicable == <<"N", "/", "A">>

\* str::trim_matches(ch)
TrimMatches(s, ch) ==
    LET keep == {i \in 1..Len(s) : s[i] # ch}
    IN  IF keep = {} THEN <<>>
        ELSE SubSeq(s, CHOOSE i \in keep : \A j \in keep : i <= j,
                       CHOOSE i \in keep : \A j \in keep : j <= i)

\* the names of the fields of a struct variant that the index has
FieldNames(fields, crate_index) ==
    LET found == SelectSeq(fields, LAMBDA fid :
                    Has(crate_index, fid) /\ Len(crate_index[fid].name) > 0)
    IN  [i \in 1..Len(found) |-> crate_index[found[i]].name[1]]

\* the Type column of a variant
VariantType(type_, variant_name, kind, crate_index) ==
    CASE kind.kind = "Plain" -> S_not_applicable
      [] kind.kind = "Tuple" ->
            IF Len(get_variant_type_from_alias(type_, variant_name)) = 0
            THEN <<"T">>
            ELSE get_variant_type_from_alias(type_, variant_name)
      [] OTHER -> Join(FieldNames(kind.fields, crate_index), S_comma)

\* d.lines().next().unwrap_or("") of the documentation of an item
FirstLine(docs) ==
    IF Len(docs) = 0 THEN <<>>
    ELSE IF Len(Lines(docs[1])) = 0 THEN <<>>
    ELSE Lines(docs[1])[1]

\* the row of generate_variants_table for one variant id
VariantRow(type_, variant_id, crate_index) ==
    IF ~Has(crate_index, variant_id) THEN <<>>
    ELSE IF crate_index[variant_id].inner.kind # "Variant" THEN <<>>
    ELSE <<"|", " ", Backtick>> \o NameOr(crate_index[variant_id], <<"?">>) \o <<Backtick, " ", " ", " ", " ", "|", " ", Backtick>>
         \o TrimMatches(VariantType(type_, NameOr(crate_index[variant_id],
             <<"?">>),
                                    crate_index[variant_id].inner.vkind, crate_index),
                        Backtick)
         \o <<Backtick, " ", " ", " ", " ", " ", "|", " ">> \o FirstLine(crate_index[variant_id].docs) \o <<" ", "|", "\n">>

generate_variants_table(type_, crate_index) ==
    IF type_.kind # "ResolvedPath" THEN <<>>
    ELSE IF ~Has(crate_index, type_.id) THEN <<>>
    ELSE IF crate_index[type_.id].inner.kind # "Enum" THEN <<>>
    ELSE S_variants_heading \o S_variants_columns \o S_variants_rule
         \o Flatten([i \in 1..Len(crate_index[type_.id].inner.variants) |->
                VariantRow(type_, crate_index[type_.id].inner.variants[i], crate_index)])
         \o <<"\n">>

S_rule == <<"-", "-", "-", "\n", "\n">>
S_implementations ==
    <<"#", "#", " ", "I", "m", "p", "l", "e", "m", "e", "n", "t", "a",
      "t", "i", "o", "n", "s", "\n", "\n">>
S_inherits ==
    <<"T", "h", "i", "s", " ", "t", "y", "p", "e", " ", "i", "n", "h",
      "e", "r", "i", "t", "s", " ", "a", "l", "l", " ", "i", "m", "p",
      "l", "e", "m", "e", "n", "t", "a", "t", "i", "o", "n", "s", " ",
      "f", "r", "o", "m", " ">>
S_the_aliased_type ==
    <<"t", "h", "e", " ", "a", "l", "i", "a", "s", "e", "d", " ", "t",
      "y", "p", "e">>
S_inherits_generic ==
    <<"T", "h", "i", "s", " ", "t", "y", "p", "e", " ", "i", "n", "h",
      "e", "r", "i", "t", "s", " ", "a", "l", "l", " ", "i", "m", "p",
      "l", "e", "m", "e", "n", "t", "a", "t", "i", "o", "n", "s", " ",
      "f", "r", "o", "m", " ", "t", "h", "e", " ", "a", "l", "i", "a",
      "s", "e", "d", " ", "t", "y", "p", "e", ".", "\n", "\n">>
S_no_implementations ==
    <<"N", "o", " ", "i", "m", "p", "l", "e", "m", "e", "n", "t", "a",
      "t", "i", "o", "n", "s", " ", "f", "o", "u", "n", "d", ".", "\n">>
S_trait_implementations ==
    <<"#", "#", " ", "T", "r", "a", "i", "t", " ", "I", "m", "p", "l",
      "e", "m", "e", "n", "t", "a", "t", "i", "o", "n", "s", "\n",
      "\n">>
S_pub_fn == <<"p", "u", "b", " ", "f", "n", " ">>

categorize_method(method) ==
    IF Contains(method, <<"i", "s", "_", "o", "k">>) \/ Contains(method, <<"i", "s", "_", "e", "r", "r">>) THEN <<"I", "n", "s", "p", "e", "c", "t", "o", "r", "s">>
    ELSE IF \/ Contains(method, <<"o", "k", "(", ")">>) \/ Contains(method, <<"e", "r", "r", "(", ")">>)
            \/ Contains(method, <<"a", "s", "_", "r", "e", "f">>)
    THEN <<"C", "o", "n", "v", "e", "r", "t", "e", "r", "s">>
    ELSE IF Contains(method, <<"m", "a", "p">>) \/ Contains(method, <<"i", "n", "s", "p", "e", "c", "t">>) THEN <<"T", "r", "a", "n", "s", "f", "o", "r", "m", "e", "r", "s">>
    ELSE IF Contains(method, <<"a", "n", "d">>) \/ Contains(method, <<"o", "r">>) THEN <<"C", "o", "m", "b", "i", "n", "a", "t", "o", "r", "s">>
    ELSE IF Contains(method, <<"u", "n", "w", "r", "a", "p">>) \/ Contains(method, <<"e", "x", "p", "e", "c", "t">>)
    THEN
        <<"E", "x", "t", "r", "a", "c", "t", "o", "r", "s", " ", "(", "U",
          "n", "w", "r", "a", "p", ")">>
    ELSE IF Contains(method, <<"u", "n", "s", "a", "f", "e">>) THEN <<"U", "n", "s", "a", "f", "e">>
    ELSE IF Contains(method, <<"i", "t", "e", "r">>) THEN <<"I", "t", "e", "r", "a", "t", "o", "r", "s">>
    ELSE <<"O", "t", "h", "e", "r">>

\* the categories generate_implementations_section displays, in its order
Categories ==
    <<<<"I", "n", "s", "p", "e", "c", "t", "o", "r", "s">>, <<"C", "o", "n", "v", "e", "r", "t", "e", "r", "s">>, <<"T", "r", "a", "n", "s", "f", "o", "r", "m", "e", "r", "s">>, <<"C", "o", "m", "b", "i", "n", "a", "t", "o", "r", "s">>,
      <<"E", "x", "t", "r", "a", "c", "t", "o", "r", "s", " ", "(", "U", "n", "w", "r", "a", "p", ")">>, <<"U", "n", "s", "a", "f", "e">>, <<"I", "t", "e", "r", "a", "t", "o", "r", "s">>>>

\* the methods of an impl: `pub fn name(...)` for every item of it that the
\* index has under a name
Methods(impl_data, crate_index) ==
    LET found == SelectSeq(impl_data.items, LAMBDA id :
                    Has(crate_index, id) /\ Len(crate_index[id].name) > 0)
    IN  [i \in 1..Len(found) |-> S_pub_fn \o crate_index[found[i]].name[1] \o
        <<"(", ".", ".", ".", ")">>]

\* the methods of the inherent impls, in the order of the impls
InherentMethods(impl_items, crate_index) ==
    LET inherent == SelectSeq(impl_items, LAMBDA id :
                        /\ crate_index[id].inner.kind = "Impl"
                        /\ Len(crate_index[id].inner.trait_) = 0)
    IN  Flatten([i \in 1..Len(inherent) |->
                    Methods(crate_index[inherent[i]].inner, crate_index)])

\* the inherent methods of one category, under its heading
CategorySection(category, methods) ==
    LET grouped == SelectSeq(methods, LAMBDA m : categorize_method(m) = category)
    IN  IF Len(grouped) = 0 THEN <<>>
        ELSE <<"#", "#", "#", " ">> \o category \o <<"\n", "\n">>
             \o Flatten([i \in 1..Len(grouped) |-> grouped[i] \o <<"\n">>])
             \o <<"\n">>

\* the trait impls that have methods, one line each, under their heading
TraitSection(impl_items, crate_index) ==
    LET trait_impls == SelectSeq(impl_items, LAMBDA id :
                        /\ crate_index[id].inner.kind = "Impl"
                        /\ Len(crate_index[id].inner.trait_) > 0
                        /\ Len(Methods(crate_index[id].inner, crate_index)) > 0)
        line(id) ==
            <<"-", " ", "*", "*", Backtick>> \o crate_index[id].inner.trait_[1].path \o <<Backtick, "*", "*", ":", " ">>
            \o Flatten([i \in 1..Len(Methods(crate_index[id].inner, crate_index)) |->
                   <<Backtick>> \o Methods(crate_index[id].inner, crate_index)[i] \o <<Backtick, ",", " ">>])
            \o <<"\n">>
    IN  IF Len(trait_impls) = 0 THEN <<>>
        ELSE S_trait_implementations
             \o Flatten([i \in 1..Len(trait_impls) |-> line(trait_impls[i])])
             \o <<"\n">>

\* generate_implementations_section for an aliased enum
EnumImplementations(aliased_item, crate_index) ==
    LET impl_items == SelectSeq(aliased_item.inner.impls,
                                LAMBDA id : Has(crate_index, id))
    IN  S_rule \o S_implementations
        \o S_inherits \o NameOr(aliased_item, S_the_aliased_type) \o
            <<".", "\n", "\n">>
        \o (IF Len(impl_items) = 0 THEN S_no_implementations
            ELSE NameOr(aliased_item, S_the_aliased_type) \o
                <<".", "\n", "\n">>
                 \o Flatten([i \in 1..Len(Categories) |->
                        CategorySection(Categories[i],
                                        InherentMethods(impl_items, crate_index))])
                 \o TraitSection(impl_items, crate_index))

generate_implementations_section(type_, crate_index) ==
    IF type_.kind # "ResolvedPath"
    THEN S_rule \o S_implementations \o S_inherits_generic
    ELSE IF ~Has(crate_index, type_.id)
    THEN S_rule \o S_implementations \o S_inherits_generic
    ELSE IF crate_index[type_.id].inner.kind # "Enum" THEN <<>>
    ELSE EnumImplementations(crate_index[type_.id], crate_index)

S_view_source ==
    <<"V", "i", "e", "w", " ", "s", "o", "u", "r", "c", "e", ":", " ",
      Backtick, "c", "a", "r", "g", "o", " ", "d", "o", "c", "m", "d",
      " ", "b", "r", "o", "w", "s", "e", " ", "-", "-", "i", "t", "e",
      "m", " ">>
S_find_related ==
    <<"F", "i", "n", "d", " ", "r", "e", "l", "a", "t", "e", "d", " ",
      "a", "l", "i", "a", "s", "e", "s", ":", " ", Backtick, "c", "a",
      "r", "g", "o", " ", "d", "o", "c", "m", "d", " ", "b", "r", "o",
      "w", "s", "e", " ", "-", "-", "t", "y", "p", "e", " ", "t", "y",
      "p", "e", "-", "a", "l", "i", "a", "s", Backtick>>

generate_next_actions(item) ==
    render_next_actions_section(<<S_view_source \o Decimal(item.id) \o
        <<Backtick>>, S_find_related>>)

S_Anonymous == <<"A", "n", "o", "n", "y", "m", "o", "u", "s">>
S_type_alias ==
    <<"T", "y", "p", "e", " ", "A", "l", "i", "a", "s", " ", Backtick>>
S_namespace ==
    <<"*", "*", "N", "a", "m", "e", "s", "p", "a", "c", "e", ":", "*",
      "*", " ", Backtick>>
S_definition ==
    <<"*", "*", "D", "e", "f", "i", "n", "i", "t", "i", "o", "n", ":",
      "*", "*", "\n", "\n">>
S_pub_type == <<"p", "u", "b", " ", "t", "y", "p", "e", " ">>
S_description ==
    <<"#", "#", "#", " ", "D", "e", "s", "c", "r", "i", "p", "t", "i",
      "o", "n", "\n", "\n">>

\* the sections of generate_alias_content, in the order it appends them
TitleSection(item) ==
    render_header(ITEM_HEADER_LEVEL, S_type_alias \o NameOr(item, S_Anonymous) \o
        <<Backtick>>)
    \o <<"\n", "\n">>

NamespaceSection(namespace) ==
    IF Len(namespace) > 0 THEN S_namespace \o namespace[1] \o <<Backtick>> \o <<"\n", "\n">> ELSE <<>>

DefinitionSection(item, alias_data) ==
    LET generics_str ==
            IF Len(alias_data.generics.params) > 0
            THEN S_lt
                 \o Join([i \in 1..Len(alias_data.generics.params) |->
                            alias_data.generics.params[i].name], S_comma)
                 \o S_gt
            ELSE <<>>
        short_type_str ==
            IF alias_data.type_.kind = "ResolvedPath"
            THEN BaseName(alias_data.type_.path)
                 \o (IF Len(alias_data.type_.args) > 0
                     THEN render_generic_args(alias_data.type_.args[1])
                     ELSE <<>>)
            ELSE render_type(alias_data.type_)
    IN  S_definition
        \o render_code_block(
                S_pub_type \o NameOr(item, S_Anonymous) \o generics_str \o
                    <<" ", "=", " ">>
                \o short_type_str \o <<";">>,
                Some(S_rust))
        \o <<"\n">>

DescriptionSection(item) ==
    IF Len(render_documentation(item.docs)) > 0
    THEN S_description \o render_documentation(item.docs) \o <<"\n">>
    ELSE <<>>

VariantsSection(alias_data, crate_index) ==
    IF Len(generate_variants_table(alias_data.type_, crate_index)) > 0
    THEN
        <<"\n">> \o S_rule \o generate_variants_table(alias_data.type_, crate_index)
    ELSE <<>>

NextActionsSection(item) ==
    IF Len(generate_next_actions(item)) > 0
    THEN <<"\n">> \o generate_next_actions(item)
    ELSE <<>>

generate_alias_content(item, alias_data, crate_index, namespace) ==
    TitleSection(item)
    \o NamespaceSection(namespace)
    \o DefinitionSection(item, alias_data)
    \o generate_aliased_type_section(alias_data.type_, crate_index)
    \o DescriptionSection(item)
    \o VariantsSection(alias_data, crate_index)
    \o generate_implementations_section(alias_data.type_, crate_index)
    \o NextActionsSection(item)

----------------------------------------------------------------------------
(* SpecAlias: generate_alias_content applied to type aliases of a crate    *)
(* with a two-parameter enum, a struct, impls and methods in its index.   *)

Item(id, name, docs, inner) == [id |-> id, name |-> name, docs |-> docs, inner |-> inner]

ResolvedPath(path, id, args) ==
    [kind |-> "ResolvedPath", path |-> path, id |-> id, args |-> args]

Generic(name) == [kind |-> "Generic", name |-> name]

Primitive(name) == [kind |-> "Primitive", name |-> name]

TypeArg(type_) == [kind |-> "Type", type_ |-> type_]

AngleBracketed(args) == [kind |-> "AngleBracketed", args |-> args]

GenericParamDef(name) == [name |-> name, kind |-> "Type"]

\* a tuple variant that carries one field
TupleVariant(id, name, docs, field) ==
    Item(id, Some(name), docs,
         [kind |-> "Variant", vkind |-> [kind |-> "Tuple", fields |-> <<Some(field)>>]])

StructField(id, type_) == Item(id, None, None, [kind |-> "StructField", type_ |-> type_])

Function(id, name) == Item(id, Some(name), None, [kind |-> "Function"])

\* how the two variants of the enum are named and what they are
EnumShapes == {"ok_err", "left_right", "plain_struct"}

\* the variants 101 and 102 of the enum and their fields
VariantItems(shape) ==
    CASE shape = "ok_err" ->
            (101 :> TupleVariant(101, S_Ok, Some(
                <<"S", "u", "c", "c", "e", "s", "s">>), 103))
            @@ (102 :> TupleVariant(102, S_Err, Some(
                <<"F", "a", "i", "l", "u", "r", "e", "\n", "w", "i", "t", "h", " ",
                  "c", "a", "u", "s", "e">>), 104))
      [] shape = "left_right" ->
            (101 :> TupleVariant(101, <<"L", "e", "f", "t">>, Some(<<"F", "i", "r", "s", "t">>), 103))
            @@ (102 :> TupleVariant(102,
                <<"R", "i", "g", "h", "t">>, None, 104))
      [] OTHER ->
            (101 :> Item(101, Some(<<"U", "n", "i", "t">>), None,
                         [kind |-> "Variant", vkind |-> [kind |-> "Plain"]]))
            @@ (102 :> Item(102, Some(<<"R", "e", "c">>), None,
                         [kind |-> "Variant",
                          vkind |-> [kind |-> "Struct", fields |-> <<103, 104>>]]))

\* the impls 110 (inherent) and 111 (of a trait) of the enum
ImplItems ==
    (110 :> Item(110, None, None,
                 [kind |-> "Impl", trait_ |-> None, items |-> <<120, 121, 122>>]))
    @@ (111 :> Item(111, None, None,
                 [kind |-> "Impl", trait_ |-> Some([path |->
                     <<"C", "l", "o", "n", "e">>]), items |-> <<123>>]))
    @@ (120 :> Function(120, <<"i", "s", "_", "o", "k">>))
    @@ (121 :> Function(121, <<"m", "a", "p", "_", "o", "r">>))
    @@ (122 :> Function(122, <<"n", "e", "w">>))
    @@ (123 :> Function(123, <<"c", "l", "o", "n", "e">>))

\* the crate index: the enum 100 of two parameters, the struct 300
CrateIndex(shape, with_impls) ==
    (100 :> Item(100, Some(<<"T", "w", "o">>), None,
                 [kind |-> "Enum", variants |-> <<101, 102>>,
                  generics |-> [params |-> <<GenericParamDef(<<"T">>), GenericParamDef(<<"E">>)>>],
                  impls |-> IF with_impls THEN <<110, 111>> ELSE <<>>]))
    @@ VariantItems(shape)
    @@ (103 :> Item(103, Some(<<"f", "i", "r", "s", "t">>), None,
                    [kind |-> "StructField", type_ |-> Generic(<<"T">>)]))
    @@ (104 :> Item(104, Some(<<"s", "e", "c", "o", "n", "d">>), None,
                    [kind |-> "StructField", type_ |-> Generic(<<"E">>)]))
    @@ (300 :> Item(300, Some(
        <<"P", "o", "i", "n", "t">>), None, [kind |-> "Struct"]))
    @@ (IF with_impls THEN ImplItems ELSE <<>>)

\* the aliased types: the enum with the second parameter fixed to a type of
\* the crate or to a primitive, the enum as it is, the struct, a type that
\* is not in the index, a primitive, a slice
AliasedTypes ==
    { ResolvedPath(<<"c", "o", "r", "e", ":", ":", "T", "w", "o">>, 100,
        Some(AngleBracketed(<<TypeArg(Generic(<<"T">>)),
                              TypeArg(ResolvedPath(
                                  <<"e", "r", "r", ":", ":", "E", "r", "r", "o", "r">>, 200, None))>>))),
      ResolvedPath(<<"c", "o", "r", "e", ":", ":", "T", "w", "o">>, 100,
        Some(AngleBracketed(<<TypeArg(Generic(<<"T">>)), TypeArg(Primitive(<<"u", "8">>))>>))),
      ResolvedPath(<<"T", "w", "o">>, 100, None),
      ResolvedPath(
          <<"g", "e", "o", ":", ":", "P", "o", "i", "n", "t">>, 300, None),
      ResolvedPath(
          <<"e", "x", "t", ":", ":", "G", "o", "n", "e">>, 999, None),
      Primitive(<<"u", "3", "2">>),
      [kind |-> "Slice", type_ |-> Generic(<<"T">>)] }

\* the generic parameters of the alias: the type parameters its type names
AliasGenerics(type_) ==
    [params |->
        IF type_.kind = "ResolvedPath" /\ Len(type_.args) > 0
        THEN <<GenericParamDef(<<"T">>)>>
        ELSE IF type_.kind = "Slice" THEN <<GenericParamDef(<<"T">>)>>
        ELSE <<>>]

AliasDocs == {None, Some(<<>>), Some(<<"A", "n", " ", "a", "l", "i", "a", "s", ".">>), Some(<<"/", "/", "/", " ", "T", "w", "o", "\n", " ", " ", "l", "i", "n", "e", "s", " ">>)}

Namespaces == {None, Some(<<"n", "s">>)}

AliasInit ==
    /\ \E type_ \in AliasedTypes, docs \in AliasDocs, namespace \in Namespaces,
          shape \in EnumShapes, with_impls \in BOOLEAN :
            alias = [item |-> Item(1, Some(
                <<"R", "e", "s">>), docs, [kind |-> "TypeAlias"]),
                     alias_data |-> [type_ |-> type_, generics |-> AliasGenerics(type_)],
                     crate_index |-> CrateIndex(shape, with_impls),
                     namespace |-> namespace]
    /\ rendered = [done |-> FALSE, out |-> <<>>]
    /\ MarkdownIdle
    /\ TextIdle
    /\ ConvertIdle
    /\ IndexIdle
    /\ CommandIdle

GenerateAlias ==
    /\ ~rendered.done
    /\ rendered' = [done |-> TRUE,
                    out |-> generate_alias_content(alias.item, alias.alias_data,
                                                   alias.crate_index, alias.namespace)]
    /\ UNCHANGED <<alias, textVars, convertVars, indexVars, commandVars, markdownVars>>

AliasNext == GenerateAlias

SpecAlias == AliasInit /\ [][AliasNext]_vars

----------------------------------------------------------------------------
(* The renderers of field types of struct.rs, union.rs and enum.rs.        *)

S_QualifiedPath ==
    <<"Q", "u", "a", "l", "i", "f", "i", "e", "d", "P", "a", "t", "h">>
S_Pattern == <<"P", "a", "t", "t", "e", "r", "n">>
S_mut == <<"m", "u", "t", " ">>

RECURSIVE struct_render_type(_)
RECURSIVE union_render_type(_)
RECURSIVE enum_render_field_type(_)

\* struct.rs, render_type
struct_render_type(type_) ==
    CASE type_.kind = "ResolvedPath" -> type_.path
      [] type_.kind = "Primitive" -> type_.name
      [] type_.kind = "Generic" -> type_.name
      [] type_.kind = "Tuple" ->
            <<"(">>
            \o Join([i \in 1..Len(type_.types) |-> struct_render_type(type_.types[i])],
                    S_comma)
            \o <<")">>
      [] type_.kind = "Slice" -> <<"[">> \o struct_render_type(type_.type_) \o <<"]">>
      [] type_.kind = "Array" ->
            <<"[">> \o struct_render_type(type_.type_) \o <<";", " ">> \o type_.len
            \o <<"]">>
      [] type_.kind = "RawPointer" ->
            <<"*">> \o (IF type_.is_mutable THEN <<"m", "u", "t">> ELSE <<"c", "o", "n", "s", "t">>) \o <<" ">>
            \o struct_render_type(type_.type_)
      [] type_.kind = "BorrowedRef" ->
            <<"&">>
            \o (IF Len(type_.lifetime) > 0
                THEN <<"'">> \o type_.lifetime[1] \o <<" ">> ELSE <<>>)
            \o (IF type_.is_mutable THEN S_mut ELSE <<>>)
            \o struct_render_type(type_.type_)
      [] type_.kind = "FunctionPointer" -> S_fn_pointer
      [] type_.kind = "ImplTrait" -> S_impl_trait
      [] type_.kind = "DynTrait" -> S_dyn_trait
      [] type_.kind = "Infer" -> <<"_">>
      [] type_.kind = "QualifiedPath" -> S_QualifiedPath
      [] OTHER -> S_Pattern

\* union.rs, render_type
union_render_type(type_) ==
    CASE type_.kind = "ResolvedPath" -> type_.path
      [] type_.kind = "Primitive" -> type_.name
      [] type_.kind = "Generic" -> type_.name
      [] type_.kind = "Tuple" ->
            <<"(">>
            \o Join([i \in 1..Len(type_.types) |-> union_render_type(type_.types[i])],
                    S_comma)
            \o <<")">>
      [] type_.kind = "Slice" -> <<"[">> \o union_render_type(type_.type_) \o <<"]">>
      [] type_.kind = "Array" ->
            <<"[">> \o union_render_type(type_.type_) \o <<";", " ">> \o type_.len
            \o <<"]">>
      [] type_.kind = "RawPointer" ->
            <<"*">> \o (IF type_.is_mutable THEN <<"m", "u", "t">> ELSE <<"c", "o", "n", "s", "t">>) \o <<" ">>
            \o union_render_type(type_.type_)
      [] type_.kind = "BorrowedRef" ->
            <<"&">>
            \o (IF Len(type_.lifetime) > 0
                THEN <<"'">> \o type_.lifetime[1] \o <<" ">> ELSE <<>>)
            \o (IF type_.is_mutable THEN S_mut ELSE <<>>)
            \o union_render_type(type_.type_)
      [] type_.kind = "FunctionPointer" -> S_fn_pointer
      [] type_.kind = "ImplTrait" -> S_impl_trait
      [] type_.kind = "DynTrait" -> S_dyn_trait
      [] type_.kind = "Infer" -> <<"_">>
      [] type_.kind = "QualifiedPath" -> S_QualifiedPath
      [] OTHER -> S_Pattern

\* enum.rs, render_field_type
enum_render_field_type(type_) ==
    CASE type_.kind = "ResolvedPath" -> type_.path
      [] type_.kind = "Primitive" -> type_.name
      [] type_.kind = "Generic" -> type_.name
      [] type_.kind = "Tuple" ->
            <<"(">>
            \o Join([i \in 1..Len(type_.types) |->
                        enum_render_field_type(type_.types[i])], S_comma)
            \o <<")">>
      [] type_.kind = "Slice" -> <<"[">> \o enum_render_field_type(type_.type_) \o <<"]">>
      [] type_.kind = "Array" ->
            <<"[">> \o enum_render_field_type(type_.type_) \o <<";", " ">> \o type_.len
            \o <<"]">>
      [] type_.kind = "BorrowedRef" ->
            <<"&">>
            \o (IF Len(type_.lifetime) > 0 THEN type_.lifetime[1] \o <<" ">> ELSE <<>>)
            \o (IF type_.is_mutable THEN S_mut ELSE <<>>)
            \o enum_render_field_type(type_.type_)
      [] type_.kind = "RawPointer" ->
            <<"*">> \o (IF type_.is_mutable THEN <<"m", "u", "t">> ELSE <<"c", "o", "n", "s", "t">>) \o <<" ">>
            \o enum_render_field_type(type_.type_)
      [] type_.kind = "FunctionPointer" -> S_fn_pointer
      [] type_.kind = "ImplTrait" -> S_impl_trait
      [] type_.kind = "DynTrait" -> S_dyn_trait
      [] type_.kind = "Infer" -> <<"_">>
      [] type_.kind = "QualifiedPath" -> S_QualifiedPath
      [] OTHER -> S_Pattern

----------------------------------------------------------------------------
(* SpecType: the four renderers of types applied to a pair of types.       *)

Tuple(types) == [kind |-> "Tuple", types |-> types]

Slice(type_) == [kind |-> "Slice", type_ |-> type_]

Array(type_, len) == [kind |-> "Array", type_ |-> type_, len |-> len]

RawPointer(is_mutable, type_) ==
    [kind |-> "RawPointer", is_mutable |-> is_mutable, type_ |-> type_]

BorrowedRef(lifetime, is_mutable, type_) ==
    [kind |-> "BorrowedRef", lifetime |-> lifetime, is_mutable |-> is_mutable,
     type_ |-> type_]

\* fn(inputs) -> output
FunctionPointer(inputs, output) ==
    [kind |-> "FunctionPointer", sig |-> [inputs |-> inputs, output |-> output]]

\* dyn Trait, for the trait of the given path
DynTrait(trait) == [kind |-> "DynTrait", traits |-> <<[path |-> trait]>>]

\* the types without a type inside: primitives, a generic parameter, a path
NamedTypes ==
    {Primitive(<<"u", "8">>), Primitive(<<"s", "t", "r">>), Generic(<<"T">>), ResolvedPath(<<"V", "e", "c">>, 7, None)}

\* function pointers and trait objects
OpaqueTypes ==
    { FunctionPointer(<<Primitive(<<"u", "8">>)>>, None),
      FunctionPointer(<<>>, Some(Primitive(<<"u", "8">>))),
      DynTrait(<<"D", "e", "b", "u", "g">>),
      DynTrait(<<"S", "e", "n", "d">>) }

\* the lifetime of a reference, spelled as rustdoc spells it
Lifetimes == {None, Some(<<"'", "a">>)}

\* the types built in one step from the types of a set
Composed(inner) ==
    {Slice(t) : t \in inner}
    \cup {Array(t, <<"3">>) : t \in inner}
    \cup {RawPointer(m, t) : m \in BOOLEAN, t \in inner}
    \cup {BorrowedRef(l, m, t) : l \in Lifetimes, m \in BOOLEAN, t \in inner}
    \cup {ResolvedPath(
        <<"V", "e", "c">>, 7, Some(AngleBracketed(<<TypeArg(t)>>))) : t \in inner}

\* the types the renderers are given: named and opaque types, what is
\* built from them in one step, pairs, and types nested two deep
Types ==
    NamedTypes
    \cup OpaqueTypes
    \cup Composed({Primitive(<<"u", "8">>), Generic(<<"T">>)} \cup OpaqueTypes)
    \cup {Array(Primitive(<<"u", "8">>), <<"4">>),
          Tuple(<<Primitive(<<"u", "8">>), Generic(<<"T">>)>>),
          Tuple(<<Generic(<<"T">>), Primitive(<<"u", "8">>)>>),
          Tuple(<<Primitive(<<"u", "8">>)>>),
          Tuple(<<>>)}
    \cup {Slice(t) : t \in Composed({Primitive(
        <<"s", "t", "r">>)} \cup OpaqueTypes)}
    \cup {Tuple(<<t, Primitive(<<"u", "8">>)>>) : t \in Composed({DynTrait(<<"S", "e", "n", "d">>)})}

TypeInit ==
    /\ \E a \in Types, b \in Types : subject = <<a, b>>
    /\ product = [done |-> FALSE]
    /\ TextIdle
    /\ ConvertIdle
    /\ IndexIdle
    /\ CommandIdle
    /\ AliasIdle

\* render both types with the renderer of type aliases and with the
\* renderers of the fields of structs, unions and enums
RenderTypes ==
    /\ ~product.done
    /\ product' = [done |-> TRUE,
                   type_alias |-> [i \in 1..2 |-> render_type(subject[i])],
                   struct |-> [i \in 1..2 |-> struct_render_type(subject[i])],
                   union |-> [i \in 1..2 |-> union_render_type(subject[i])],
                   enum |-> [i \in 1..2 |-> enum_render_field_type(subject[i])]]
    /\ UNCHANGED <<subject, textVars, convertVars, indexVars, commandVars, aliasVars>>

TypeNext == RenderTypes

SpecType == TypeInit /\ [][TypeNext]_vars

----------------------------------------------------------------------------
(* The index page (index.rs) and the names of the files of the item        *)
(* generators (utils.rs, struct.rs, enum.rs, union.rs, type_alias.rs).     *)

\* markdown::SECTION_HEADER_LEVEL
SECTION_HEADER_LEVEL == 2

S_md_extension == <<".", "m", "d">>

\* utils.rs, generate_filename
generate_filename(item_id) ==
    LET generic_start == FirstMatch(item_id, S_lt, 1)
        base_name == IF generic_start > 0 THEN SubSeq(item_id, 1, generic_start - 1)
                     ELSE item_id
    IN  Replace(base_name, S_sep, <<"-">>) \o S_md_extension

\* the characters of the names, in the order of their code points
CharOrder ==
    <<" ", "0", "1", "2", "3", "4", "5", "6", "7", "8", "9", "A", "B",
      "C", "D", "E", "F", "G", "H", "I", "J", "K", "L", "M", "N", "O",
      "P", "Q", "R", "S", "T", "U", "V", "W", "X", "Y", "Z", "_", "a",
      "b", "c", "d", "e", "f", "g", "h", "i", "j", "k", "l", "m", "n",
      "o", "p", "q", "r", "s", "t", "u", "v", "w", "x", "y", "z">>

CharRank(ch) == CHOOSE i \in 1..Len(CharOrder) : CharOrder[i] = ch

\* String::cmp is Less
RECURSIVE StrLess(_, _)
StrLess(a, b) ==
    IF Len(b) = 0 THEN FALSE
    ELSE IF Len(a) = 0 THEN TRUE
    ELSE IF a[1] = b[1] THEN StrLess(Tail(a), Tail(b))
    ELSE CharRank(a[1]) < CharRank(b[1])

\* a sequence without its element at position i
Without(s, i) == SubSeq(s, 1, i - 1) \o SubSeq(s, i + 1, Len(s))

\* Vec<String>::sort
RECURSIVE SortStrings(_)
SortStrings(s) ==
    IF Len(s) = 0 THEN <<>>
    ELSE LET least == CHOOSE i \in 1..Len(s) : \A j \in 1..Len(s) : ~StrLess(s[j], s[i])
         IN  <<s[least]>> \o SortStrings(Without(s, least))

\* the elements of a set of strings as a sorted sequence
RECURSIVE SortedSeq(_)
SortedSeq(set) ==
    IF set = {} THEN <<>>
    ELSE LET least == CHOOSE a \in set : \A b \in set : ~StrLess(b, a)
         IN  <<least>> \o SortedSeq(set \ {least})

\* utils.rs, get_item_type_name, for the kinds of items of the model
get_item_type_name(inner) ==
    CASE inner.kind = "Union" -> <<"U", "n", "i", "o", "n">>
      [] inner.kind = "Struct" -> <<"S", "t", "r", "u", "c", "t">>
      [] inner.kind = "StructField" ->
          <<"S", "t", "r", "u", "c", "t", " ", "F", "i", "e", "l", "d">>
      [] inner.kind = "Enum" -> <<"E", "n", "u", "m">>
      [] inner.kind = "Variant" -> <<"V", "a", "r", "i", "a", "n", "t">>
      [] inner.kind = "Function" -> <<"F", "u", "n", "c", "t", "i", "o", "n">>
      [] inner.kind = "Impl" ->
          <<"I", "m", "p", "l", " ", "B", "l", "o", "c", "k">>
      [] inner.kind = "TypeAlias" ->
          <<"T", "y", "p", "e", " ", "A", "l", "i", "a", "s">>
      [] OTHER -> <<"M", "o", "d", "u", "l", "e">>

\* the items of the index that group_items_by_type keeps
GroupedIds(krate) ==
    {id \in DOMAIN krate.index :
        /\ id # krate.root
        /\ Len(krate.index[id].name) > 0
        /\ krate.index[id].visibility = "Public"}

\* the names of a set of items, in some order
RECURSIVE NamesOf(_, _)
NamesOf(krate, ids) ==
    IF ids = {} THEN <<>>
    ELSE LET id == CHOOSE i \in ids : TRUE
         IN  <<krate.index[id].name[1]>> \o NamesOf(krate, ids \ {id})

\* index.rs, group_items_by_type: the BTreeMap as a sequence of
\* [type_name, items] in the order of its keys
group_items_by_type(krate) ==
    LET keys == SortedSeq({get_item_type_name(krate.index[id].inner) :
                              id \in GroupedIds(krate)})
    IN  [k \in 1..Len(keys) |->
            [type_name |-> keys[k],
             items |-> SortStrings(NamesOf(krate,
                          {id \in GroupedIds(krate) :
                              get_item_type_name(krate.index[id].inner) = keys[k]}))]]

\* index.rs, render_item_lists
render_item_lists(items_by_type) ==
    Flatten([k \in 1..Len(items_by_type) |->
        IF Len(items_by_type[k].items) = 0 THEN <<>>
        ELSE render_header(SECTION_HEADER_LEVEL + 1, items_by_type[k].type_name)
             \o <<"\n", "\n">>
             \o Flatten([i \in 1..Len(items_by_type[k].items) |->
                    <<"-", " ", "[">> \o items_by_type[k].items[i] \o <<"]", "(">>
                    \o generate_filename(items_by_type[k].items[i]) \o
                        <<")", "\n">>])
             \o <<"\n">>])

\* the kinds of items that have a generator
GeneratedKinds == {"Struct", "Enum", "Union", "TypeAlias"}

\* struct.rs, enum.rs, union.rs, type_alias.rs, generate: the name of the
\* file the generator writes for an item
generated_filename(item) == generate_filename(Decimal(item.id))

----------------------------------------------------------------------------
(* SpecFiles: the index page and the item files of a crate.                *)

Visible(item, visibility) == [visibility |-> visibility] @@ item

\* the items a crate of the model may hold beside its root module 0
CrateItems ==
    { Visible(Item(1, Some(
        <<"P", "o", "i", "n", "t">>), None, [kind |-> "Struct"]), "Public"),
      Visible(Item(2, Some(
          <<"S", "h", "a", "p", "e">>), None, [kind |-> "Enum"]), "Public"),
      Visible(Item(3, Some(
          <<"B", "i", "t", "s">>), None, [kind |-> "Union"]), "Public"),
      Visible(Item(4, Some(
          <<"R", "e", "s">>), None, [kind |-> "TypeAlias"]), "Public"),
      Visible(Item(5, Some(
          <<"I", "n", "n", "e", "r">>), None, [kind |-> "Struct"]), "Default"),
      Visible(Item(6, None, None, [kind |-> "Impl"]), "Default"),
      Visible(Item(17, Some(
          <<"M", "a", "p">>), None, [kind |-> "Struct"]), "Public"),
      Visible(Item(108, Some(
          <<"r", "u", "n">>), None, [kind |-> "Function"]), "Public") }

RootModule == Visible(Item(0, Some(
    <<"g", "e", "o">>), None, [kind |-> "Module"]), "Public")

CrateOf(items) ==
    [root |-> 0,
     index |-> [id \in {0} \cup {item.id : item \in items} |->
                  IF id = 0 THEN RootModule
                  ELSE CHOOSE item \in items : item.id = id]]

FilesInit ==
    /\ \E items \in SUBSET CrateItems : subject = CrateOf(items)
    /\ product = [done |-> FALSE]
    /\ TextIdle
    /\ ConvertIdle
    /\ IndexIdle
    /\ CommandIdle
    /\ AliasIdle

\* write the item lists of index.md and the file of every item that has a
\* generator
GenerateFiles ==
    /\ ~product.done
    /\ product' = [done |-> TRUE,
                   item_lists |-> render_item_lists(group_items_by_type(subject)),
                   files |-> [id \in {i \in DOMAIN subject.index :
                                         subject.index[i].inner.kind \in GeneratedKinds} |->
                                generated_filename(subject.index[id])]]
    /\ UNCHANGED <<subject, textVars, convertVars, indexVars, commandVars, aliasVars>>

FilesNext == GenerateFiles

SpecFiles == FilesInit /\ [][FilesNext]_vars

----------------------------------------------------------------------------
(* The generator of union documents (union.rs).                            *)

S_safety_heading == <<"S", "a", "f", "e", "t", "y">>
S_safety_sentence ==
    <<"*", "*", "I", "m", "p", "o", "r", "t", "a", "n", "t", "*", "*",
      ":", " ", "A", "c", "c", "e", "s", "s", "i", "n", "g", " ", "u",
      "n", "i", "o", "n", " ", "f", "i", "e", "l", "d", "s", " ", "r",
      "e", "q", "u", "i", "r", "e", "s", " ", "u", "n", "s", "a", "f",
      "e", " ", "c", "o", "d", "e", ".", " ", "O", "n", "l", "y", " ",
      "a", "c", "c", "e", "s", "s", " ", "t", "h", "e", " ", "f", "i",
      "e", "l", "d", " ", "t", "h", "a", "t", " ", "w", "a", "s", " ",
      "m", "o", "s", "t", " ", "r", "e", "c", "e", "n", "t", "l", "y",
      " ", "w", "r", "i", "t", "t", "e", "n", " ", "t", "o", ".", " ",
      "R", "e", "a", "d", "i", "n", "g", " ", "f", "r", "o", "m", " ",
      "a", " ", "d", "i", "f", "f", "e", "r", "e", "n", "t", " ", "f",
      "i", "e", "l", "d", " ", "r", "e", "s", "u", "l", "t", "s", " ",
      "i", "n", " ", "u", "n", "d", "e", "f", "i", "n", "e", "d", " ",
      "b", "e", "h", "a", "v", "i", "o", "r", ".">>
S_fields_heading == <<"F", "i", "e", "l", "d", "s">>
S_generics_heading ==
    <<"G", "e", "n", "e", "r", "i", "c", " ", "P", "a", "r", "a", "m",
      "e", "t", "e", "r", "s">>
S_find_related_unions ==
    <<"F", "i", "n", "d", " ", "r", "e", "l", "a", "t", "e", "d", " ",
      "u", "n", "i", "o", "n", "s", ":", " ", Backtick, "c", "a", "r",
      "g", "o", " ", "d", "o", "c", "m", "d", " ", "b", "r", "o", "w",
      "s", "e", " ", "-", "-", "t", "y", "p", "e", " ", "u", "n", "i",
      "o", "n", Backtick>>

\* utils.rs, render_inline_code
render_inline_code(t) == <<Backtick>> \o t \o <<Backtick>>

\* union.rs, generate_safety_note
generate_safety_note ==
    render_header(SECTION_HEADER_LEVEL, S_safety_heading) \o <<"\n">>
    \o S_safety_sentence \o <<"\n">>

\* union.rs, render_visibility
union_render_visibility(visibility) ==
    CASE visibility = "Public" -> <<"(", "p", "u", "b", ")">>
      [] visibility = "Default" -> <<>>
      [] visibility = "Crate" ->
          <<"(", "p", "u", "b", "(", "c", "r", "a", "t", "e", ")", ")">>
      [] OTHER ->
          <<"(", "p", "u", "b", " ", "r", "e", "s", "t", "r", "i", "c", "t",
            "e", "d", ")">>

\* union.rs, generate_fields_section: the line of one field, nothing for an
\* id that is not in the map or is not a field
UnionFieldLine(field_id, item_map) ==
    IF field_id \notin DOMAIN item_map THEN <<>>
    ELSE IF item_map[field_id].inner.kind # "StructField" THEN <<>>
    ELSE <<"-", " ">>
         \o render_inline_code(union_render_type(item_map[field_id].inner.type_))
         \o <<" ">>
         \o NameOr(item_map[field_id], <<"U", "n", "n", "a", "m", "e", "d">>)
         \o (IF Len(union_render_visibility(item_map[field_id].visibility)) > 0
             THEN
                 <<" ">> \o union_render_visibility(item_map[field_id].visibility)
             ELSE <<>>)
         \o (IF Len(render_documentation(item_map[field_id].docs)) > 0
             THEN
                 <<" ", "-", " ">> \o render_documentation(item_map[field_id].docs)
             ELSE <<>>)
         \o <<"\n">>

\* union.rs, generate_fields_section
union_generate_fields_section(field_ids, item_map) ==
    IF Len(field_ids) = 0 THEN <<>>
    ELSE render_header(SECTION_HEADER_LEVEL, S_fields_heading) \o <<"\n">>
         \o Flatten([i \in 1..Len(field_ids) |-> UnionFieldLine(field_ids[i], item_map)])

\* union.rs, generate_generics_section
union_generate_generics_section(generics) ==
    IF Len(generics.params) = 0 THEN <<>>
    ELSE render_header(SECTION_HEADER_LEVEL, S_generics_heading) \o <<"\n">>
         \o Flatten([i \in 1..Len(generics.params) |->
                <<"-", " ">> \o <<Backtick>> \o generics.params[i].name \o <<Backtick>> \o <<":", " ">>
                \o (CASE generics.params[i].kind = "Lifetime" ->
                    <<"l", "i", "f", "e", "t", "i", "m", "e">>
                      [] generics.params[i].kind = "Type" ->
                          <<"t", "y", "p", "e">>
                      [] OTHER -> <<"c", "o", "n", "s", "t">>)
                \o <<"\n">>])

\* union.rs, generate_next_actions
union_generate_next_actions(item) ==
    render_next_actions_section(
        <<S_view_source \o Decimal(item.id) \o <<Backtick>>, S_find_related_unions>>)

\* "\n" and a section, nothing for an empty section
OnNewLine(section) == IF Len(section) > 0 THEN <<"\n">> \o section ELSE <<>>

\* generate_union_content with the safety note after the fields
generate_union_content_note_after_fields(item, union_data, item_map) ==
    render_header(ITEM_HEADER_LEVEL, NameOr(item, S_Anonymous)) \o <<"\n">>
    \o (IF Len(render_documentation(item.docs)) > 0
        THEN <<"\n">> \o render_documentation(item.docs) \o <<"\n">>
        ELSE <<>>)
    \o OnNewLine(union_generate_fields_section(union_data.fields, item_map))
    \o <<"\n">> \o generate_safety_note
    \o OnNewLine(union_generate_generics_section(union_data.generics))
    \o OnNewLine(union_generate_next_actions(item))

\* union.rs, generate_union_content
generate_union_content(item, union_data, item_map) ==
    render_header(ITEM_HEADER_LEVEL, NameOr(item, S_Anonymous)) \o <<"\n">>
    \o (IF Len(render_documentation(item.docs)) > 0
        THEN <<"\n">> \o render_documentation(item.docs) \o <<"\n">>
        ELSE <<>>)
    \o <<"\n">> \o generate_safety_note
    \o OnNewLine(union_generate_fields_section(union_data.fields, item_map))
    \o OnNewLine(union_generate_generics_section(union_data.generics))
    \o OnNewLine(union_generate_next_actions(item))

----------------------------------------------------------------------------
(* SpecUnion: generate_union_content applied to unions.                    *)

\* the fields of the unions: 11 and 12 are fields, 14 is not, 13 is not in
\* the map
UnionItemMap ==
    (11 :> Visible(Item(11, Some(<<"i", "n", "t">>), Some(<<"/", "/", "/", " ", "A", "s", " ", "i", "n", "t", "e", "g", "e", "r">>),
                        [kind |-> "StructField", type_ |-> Primitive(
                            <<"u", "3", "2">>)]),
                   "Public"))
    @@ (12 :> Visible(Item(12, Some(<<"p", "t", "r">>), None,
                        [kind |-> "StructField",
                         type_ |-> RawPointer(FALSE, Generic(<<"T">>))]),
                   "Default"))
    @@ (14 :> Visible(Function(14, <<"r", "u", "n">>), "Public"))

UnionFields == {<<>>, <<11>>, <<11, 12>>, <<13>>, <<14, 12>>, <<11, 13, 12>>}

UnionGenerics ==
    { [params |-> <<>>],
      [params |-> <<GenericParamDef(<<"T">>)>>],
      [params |-> <<[name |-> <<"'", "a">>, kind |-> "Lifetime"],
                    [name |-> <<"N">>, kind |-> "Const"]>>] }

\* no documentation, empty documentation, documentation of nothing but
\* spaces, one line, and several lines with a section about safety
UnionDocs ==
    {None, Some(<<>>), Some(<<" ", " ">>), Some(<<"R", "a", "w", " ", "b", "i", "t", "s", ".">>),
     Some(
         <<"/", "/", "/", " ", "R", "a", "w", " ", "b", "i", "t", "s", ".",
           "\n", "/", "/", "/", "\n", "/", "/", "/", " ", "#", " ", "S",
           "a", "f", "e", "t", "y", "\n", "/", "/", "/", " ", "T", "a", "k",
           "e", " ", "c", "a", "r", "e", ".">>)}

UnionInit ==
    /\ \E name \in {None, Some(<<"B", "i", "t", "s">>)}, docs \in UnionDocs,
          fields \in UnionFields, generics \in UnionGenerics :
            subject = [item |-> Item(9, name, docs, [kind |-> "Union"]),
                       union_data |-> [fields |-> fields, generics |-> generics],
                       item_map |-> UnionItemMap]
    /\ product = [done |-> FALSE]
    /\ TextIdle
    /\ ConvertIdle
    /\ IndexIdle
    /\ CommandIdle
    /\ AliasIdle

GenerateUnion ==
    /\ ~product.done
    /\ product' = [done |-> TRUE,
                   out |-> generate_union_content(subject.item, subject.union_data,
                                                  subject.item_map)]
    /\ UNCHANGED <<subject, textVars, convertVars, indexVars, commandVars, aliasVars>>

UnionNext == GenerateUnion

SpecUnion == UnionInit /\ [][UnionNext]_vars

----------------------------------------------------------------------------
(* SpecFormat: format_all_md applied to converted all-items pages.         *)

\* most sections of a converted all-items page
MaxSections == 4

\* what stands on the first line of the page: nothing (the page is empty),
\* the title, a section heading or a list item
FirstLines ==
    {"empty", "title", "heading", "item"}

\* the lines of section k in one of its shapes: a heading alone, a heading
\* and one item, a heading and two items after an empty line, a heading
\* and an item after a line of text
SectionShapes == {"bare", "one", "two", "text"}

SectionLines(k, shape) ==
    CASE shape = "bare" -> <<<<"#", "#", "#", " ", "S">> \o Decimal(k), <<>>>>
      [] shape = "one" -> <<<<"#", "#", "#", " ", "S">> \o Decimal(k), <<"-", " ", "I">> \o Decimal(k)>>
      [] shape = "two" ->
            <<<<"#", "#", "#", " ", "S">> \o Decimal(k), <<>>, <<"-", " ", "I">> \o Decimal(k), <<"-", " ", "J">> \o Decimal(k), <<>>>>
      [] OTHER -> <<<<"#", "#", "#", " ", "S">> \o Decimal(k), <<"T", "e", "x", "t", ".">>, <<"-", " ", "I">> \o Decimal(k)>>

\* the page with the given first line and sections
PageLines(first, shapes) ==
    (CASE first = "title" -> <<S_list_heading, <<>>>>
       [] first = "heading" -> <<<<"#", "#", "#", " ", "S", "0">>, <<"-", " ", "I", "0">>>>
       [] first = "item" -> <<<<"-", " ", "I", "0">>, <<>>>>
       [] OTHER -> <<>>)
    \o Flatten([k \in 1..Len(shapes) |-> SectionLines(k, shapes[k])])

FormatInit ==
    /\ \E first \in FirstLines, shapes \in SeqsUpTo(SectionShapes, MaxSections),
          crate_name \in {HyphenCrate, CanonicalName(HyphenCrate)},
          final_newline \in BOOLEAN :
            /\ first = "empty" => (Len(shapes) = 0 /\ ~final_newline)
            /\ subject = [crate_name |-> crate_name,
                          content |-> Join(PageLines(first, shapes), <<"\n">>)
                                      \o (IF final_newline THEN
                                          <<"\n">> ELSE <<>>)]
    /\ product = [done |-> FALSE]
    /\ TextIdle
    /\ ConvertIdle
    /\ IndexIdle
    /\ CommandIdle
    /\ AliasIdle

FormatAllMd ==
    /\ ~product.done
    /\ product' = [done |-> TRUE,
                   out |-> format_all_md(subject.crate_name, subject.content)]
    /\ UNCHANGED <<subject, textVars, convertVars, indexVars, commandVars, aliasVars>>

FormatNext == FormatAllMd

SpecFormat == FormatInit /\ [][FormatNext]_vars

----------------------------------------------------------------------------
(* Bracket structure of a text, for the claims about process_text_links.   *)

\* opening minus closing brackets among the first k characters of s
RECURSIVE Depth(_, _)
Depth(s, k) ==
    IF k = 0 THEN 0
    ELSE Depth(s, k - 1)
         + (IF s[k] = "[" THEN 1 ELSE IF s[k] = "]" THEN -1 ELSE 0)

\* every bracket of s is matched
Balanced(s) ==
    /\ Depth(s, Len(s)) = 0
    /\ \A k \in 1..Len(s) : Depth(s, k) >= 0

\* s is balanced and no bracket group contains a bracket
Flat(s) == Balanced(s) /\ \A k \in 1..Len(s) : Depth(s, k) <= 1

\* s[i..k] is `[label][reference]` with the label closed at j, both balanced
PairAt(s, i, j, k) ==
    /\ 1 <= i /\ i < j /\ j + 1 < k /\ k <= Len(s)
    /\ s[i] = "[" /\ s[j] = "]" /\ s[j + 1] = "[" /\ s[k] = "]"
    /\ Balanced(SubSeq(s, i + 1, j - 1))
    /\ Balanced(SubSeq(s, j + 2, k - 1))

HasPair(s) == \E i, j, k \in 1..Len(s) : PairAt(s, i, j, k)

\* some closing bracket of s is followed, after optional whitespace, by an
\* opening bracket: a bracket group followed by a reference group
ReferenceFollows(s) ==
    \E j, k \in 1..Len(s) :
        /\ j < k /\ s[j] = "]" /\ s[k] = "["
        /\ \A m \in (j + 1)..(k - 1) : IsWhitespace(s[m])

\* every pair that starts before any other bracket is replaced by its label,
\* and the rest of the text is processed in the same way
FirstPairReplaced ==
    \A i, j, k \in 1..Len(text) :
        (PairAt(text, i, j, k) /\ \A m \in 1..(i - 1) : text[m] # "[")
        => processed.out = SubSeq(text, 1, i - 1)
                           \o SubSeq(text, i + 1, j - 1)
                           \o process_text_links(SubSeq(text, k + 1, Len(text)))

----------------------------------------------------------------------------
(* Claims about process_text_links (SpecText).                             *)

\* C9: a text in which no bracket group is followed by a reference group is
\* returned character for character unchanged, whitespace after the group
\* and an unclosed opening bracket included.
C9_UnmatchedGroupUnchanged ==
    (processed.done /\ ~ReferenceFollows(text)) => processed.out = text

----------------------------------------------------------------------------
(* Claims about convert (SpecConvert).                                     *)

\* node is, or holds, an element called name
RECURSIVE HasElement(_, _)
HasElement(node, name) ==
    /\ node.kind = "elem"
    /\ \/ node.name = name
       \/ \E i \in 1..Len(node.kids) : HasElement(node.kids[i], name)

\* C8: convert returns an error and no Markdown exactly when the document
\* has no <main> element; when it has one, convert returns Markdown and no
\* error.
C8_ErrorIffNoMain ==
    converted.done =>
        /\ converted.ok <=> HasElement(document, "main")
        /\ ~converted.ok =>
            (converted.val = <<>> /\ converted.err.kind = "ElementNotFound")
        /\ converted.ok => converted.err = NoError

\* convert failed on a document without <main> that has content to convert
C8_Witness ==
    /\ converted.done
    /\ ~converted.ok
    /\ ~HasElement(document, "main")
    /\ HasElement(document, "h1")

----------------------------------------------------------------------------
(* The content root of the document and what stands under it.              *)

\* the content root: the first <main> element (only read when there is one)
ContentRoot == SelectByName(document, "main")[1]

HasContentRoot == Len(SelectByName(document, "main")) > 0

\* the children of the content root
Body == IF HasContentRoot THEN ContentRoot.kids ELSE <<>>

\* the document has been converted and the conversion returned Markdown
Converted == converted.done /\ converted.ok

S_fence_open == <<Backtick, Backtick, Backtick, "\n">>
S_fence_close == <<"\n", Backtick, Backtick, Backtick, "\n", "\n">>

\* a preformatted block whose only child is a code element
IsCodeBlock(node) ==
    /\ node.kind = "elem" /\ node.name = "pre" /\ Len(node.kids) = 1
    /\ node.kids[1].kind = "elem" /\ node.kids[1].name = "code"

\* C11: for a code element nested inside a preformatted block, the text
\* between the opening and the closing fence is the text content of the
\* code element, character for character, brackets and whitespace-only
\* text nodes included.
C11_CodeBlockVerbatim ==
    Converted =>
        \A i \in 1..Len(Body) :
            IsCodeBlock(Body[i]) =>
                Contains(converted.val,
                         S_fence_open \o ElementText(Body[i].kids[1]) \o S_fence_close)

\* no element under the content root, the root included, is on the skip list
NoSkipListElement ==
    \A i \in 1..Len(Elements(ContentRoot)) : ~should_skip_node(Elements(ContentRoot)[i])

\* the characters of s that are not whitespace
RECURSIVE NonWhitespace(_)
NonWhitespace(s) ==
    IF Len(s) = 0 THEN <<>>
    ELSE (IF IsWhitespace(s[1]) THEN <<>> ELSE <<s[1]>>) \o NonWhitespace(Tail(s))

\* the characters of a occur in b in the same order
RECURSIVE InOrderIn(_, _)
InOrderIn(a, b) ==
    IF Len(a) = 0 THEN TRUE
    ELSE IF Len(b) = 0 THEN FALSE
    ELSE IF a[1] = b[1] THEN InOrderIn(Tail(a), Tail(b))
    ELSE InOrderIn(a, Tail(b))

\* C12: when the content root holds no skip-list element and no bracket,
\* the text of every non-whitespace text node under it is in the output, in
\* document order, whatever elements enclose it.
C12_NoTextDropped ==
    (/\ Converted
     /\ NoSkipListElement
     /\ ~Contains(ElementText(ContentRoot), <<"[">>)
     /\ ~Contains(ElementText(ContentRoot), <<"]">>))
    => InOrderIn(NonWhitespace(ElementText(ContentRoot)), converted.val)

\* an element named name whose only child is a text node
IsTextOnly(node, name) ==
    /\ node.kind = "elem" /\ node.name = name
    /\ Len(node.kids) = 1 /\ node.kids[1].kind = "text"

\* a definition list made of terms and descriptions only, the first child a
\* term and no description following another description
IsTermList(node) ==
    /\ node.kind = "elem" /\ node.name = "dl" /\ Len(node.kids) > 0
    /\ \A k \in 1..Len(node.kids) :
        IsTextOnly(node.kids[k], "dt") \/ IsTextOnly(node.kids[k], "dd")
    /\ IsTextOnly(node.kids[1], "dt")
    /\ \A k \in 2..Len(node.kids) :
        IsTextOnly(node.kids[k], "dd") => IsTextOnly(node.kids[k - 1], "dt")

\* the line of the term at position k of a definition list
TermLine(kids, k) ==
    <<"-", " ", "*", "*">> \o NormalizeWhitespace(kids[k].kids[1].s) \o <<"*", "*">>
    \o (IF k < Len(kids) /\ kids[k + 1].name = "dd"
        THEN <<":", " ">> \o NormalizeWhitespace(kids[k + 1].kids[1].s)
        ELSE <<>>)

\* the lines of s in a set
LineSet(s) == {Lines(s)[i] : i \in 1..Len(Lines(s))}

\* C13: every term of a definition list is on a line of its own,
\* `- **Term**: Description` or, without a description, `- **Term**`, for
\* any sequence of terms and descriptions, and a list that stands alone in
\* the document has no blank line before the one that ends it.
C13_TermPerLine ==
    Converted =>
        \A i \in 1..Len(Body) :
            IsTermList(Body[i]) =>
                /\ \A k \in 1..Len(Body[i].kids) :
                    IsTextOnly(Body[i].kids[k], "dt") =>
                        TermLine(Body[i].kids, k) \in LineSet(converted.val)
                /\ Len(Body) = 1 =>
                    \A n \in 1..(Len(Lines(converted.val)) - 1) :
                        Lines(converted.val)[n] # <<>>

\* a <script> element, the copy-path control, an element with the tooltip
\* marker in its class
IsHidden(node) ==
    /\ node.kind = "elem"
    /\ \/ node.name = "script"
       \/ node.id = "copy-path"
       \/ Contains(node.class, S_tooltip)

\* the tree under node without the subtrees of its hidden descendants
RECURSIVE Pruned(_)
RECURSIVE PrunedKids(_)
Pruned(node) == [node EXCEPT !.kids = PrunedKids(node.kids)]

PrunedKids(kids) ==
    IF Len(kids) = 0 THEN <<>>
    ELSE (IF IsHidden(kids[1]) THEN <<>> ELSE <<Pruned(kids[1])>>)
         \o PrunedKids(Tail(kids))

\* C14: the output for a document is the output for the same document
\* with the subtrees of its <script> elements, copy-path controls and
\* tooltip elements removed, so that no text from them is in the output.
C14_HiddenSubtreesRemoved ==
    converted.done => converted = [done |-> TRUE] @@ convert(Pruned(document))

\* the tree under node with the link target taken off every anchor
RECURSIVE WithoutTargets(_)
RECURSIVE WithoutTargetsKids(_)
WithoutTargets(node) ==
    [node EXCEPT !.href = IF node.name = "a" THEN <<>> ELSE @,
                 !.kids = WithoutTargetsKids(node.kids)]

WithoutTargetsKids(kids) ==
    IF Len(kids) = 0 THEN <<>>
    ELSE <<WithoutTargets(kids[1])>> \o WithoutTargetsKids(Tail(kids))

\* the anchors under the content root that have a link target
TargetedAnchors ==
    SelectSeq(Elements(ContentRoot), LAMBDA e : e.name = "a" /\ Len(e.href) > 0)

\* C15: the result of the conversion does not depend on the link targets:
\* it is the result for the document with the target taken off every
\* anchor, so two documents that differ in their targets only convert to
\* the same Markdown.
C15_TargetsIgnored ==
    converted.done => converted = [done |-> TRUE] @@ convert(WithoutTargets(document))

\* a converted document with anchors that have different targets, their
\* children rendered
C15_Witness ==
    /\ Converted
    /\ \E i, j \in 1..Len(TargetedAnchors) :
        TargetedAnchors[i].href # TargetedAnchors[j].href
    /\ Contains(converted.val, <<"l", Backtick, "d", Backtick>>)

\* the elements that make one logical line of the output
LineElements == {"h1", "h2", "h3", "h4", "h5", "h6", "p", "li", "dt", "dd"}

\* the markup convert_node puts before and after the text of an element
MarkupBefore(name) ==
    CASE HeadingLevel(name) > 0 -> Hashes(HeadingLevel(name)) \o <<" ">>
      [] name = "dt" -> <<"-", " ", "*", "*">>
      [] name = "dd" -> <<":", " ">>
      [] OTHER -> <<>>

MarkupAfter(name) ==
    CASE HeadingLevel(name) > 0 \/ name = "p" -> <<"\n", "\n">>
      [] name = "dt" -> <<"*", "*">>
      [] name = "dd" -> <<"\n">>
      [] OTHER -> <<>>

\* the text emitted for an element named name whose whole output is out
EmittedText(name, out) ==
    SubSeq(out, Len(MarkupBefore(name)) + 1, Len(out) - Len(MarkupAfter(name)))

\* no whitespace at either end of s and no two whitespace characters in a row
Tidy(s) ==
    /\ Len(s) > 0 => ~IsWhitespace(s[1]) /\ ~IsWhitespace(s[Len(s)])
    /\ \A i \in 1..(Len(s) - 1) : ~(IsWhitespace(s[i]) /\ IsWhitespace(s[i + 1]))

\* C16: the text emitted for a heading, a paragraph, a list item, a
\* definition term or a definition description has no run of two or more
\* whitespace characters and no whitespace at its ends, whether the element
\* is the whole content or an item of a list that is.
C16_LogicalLineTidy ==
    (Converted /\ Len(Body) = 1 /\ Body[1].kind = "elem" /\ ~should_skip_node(Body[1]))
    => /\ Body[1].name \in LineElements =>
            Tidy(EmittedText(Body[1].name, converted.val))
       /\ Body[1].name \in {"ul", "ol", "dl"} =>
            \A line \in LineSet(converted.val) : Tidy(line)

----------------------------------------------------------------------------
(* Claims about extract_item_mappings (SpecIndex).                         *)

\* the anchors of the page that stand under an item-listing container
ListedAnchors ==
    SelectSeq(listing.anchors, LAMBDA a : a.listed)

\* the full path of an anchor: the library name, the separator, its text
FullPath(a) == extracted.crate_name \o S_sep \o a.text

\* no key of the map comes from anything but a listed anchor
OnlyListedKeys ==
    \A i \in 1..Len(extracted.val) :
        \E k \in 1..Len(ListedAnchors) :
            extracted.val[i].key = FullPath(ListedAnchors[k])

\* C6: the returned map holds `<library>::t -> h` for every anchor
\* under the item-listing container with text t and href h, and no key that
\* does not come from such an anchor.
C6_EntryForEveryAnchor ==
    (extracted.done /\ extracted.ok) =>
        /\ \A k \in 1..Len(ListedAnchors) :
            \E i \in 1..Len(extracted.val) :
                extracted.val[i] = [key |-> FullPath(ListedAnchors[k]),
                                    val |-> ListedAnchors[k].href[1]]
        /\ OnlyListedKeys

----------------------------------------------------------------------------
(* Claims about the commands (Spec).                                       *)

\* str::ends_with
EndsWith(s, p) == Len(s) >= Len(p) /\ SubSeq(s, Len(s) - Len(p) + 1, Len(s)) = p

\* the texts of the anchors the all-items page of a site lists
ListedTexts(s) ==
    UNION {{SiteLists(s)[i].anchors[k].text : k \in 1..Len(SiteLists(s)[i].anchors)} :
            i \in {j \in 1..Len(SiteLists(s)) : SiteLists(s)[j].listed}}

\* the last command was a build of crate_name that returned success
BuildSucceeded(crate_name) ==
    outcome.cmd = "build" /\ outcome.ok /\ outcome.arg = crate_name

\* C1: for a library whose declared name has hyphens, after a successful
\* build under the declared name, show of an item under the declared
\* spelling and show of it under the canonical spelling both succeed and
\* resolve to the same Markdown file.
C1_BothSpellingsResolve ==
    (HyphenCrate \in dependencies /\ BuildSucceeded(HyphenCrate)) =>
        \A t \in ListedTexts(site), order \in Orders :
            \A declared \in {show(target, HyphenCrate \o S_sep \o t, NoFault, order)},
               canonical \in {show(target, CanonicalName(HyphenCrate) \o S_sep \o t,
                                   NoFault, order)} :
                /\ declared.ok
                /\ canonical.ok
                /\ declared.resolved = canonical.resolved

\* the item index a build of crate_name makes: the listing of the library,
\* keyed under the name of its documentation directory
ItemIndex(crate_name) ==
    extract_item_mappings(CanonicalName(crate_name), SiteFiles(site)[S_all_html]).val

\* C2: after build returns success, every key of the item index maps to a
\* relative path that ends in the Markdown extension and names an existing
\* file under docmd/<crate>/, and show resolves the key to exactly that file.
C2_IndexKeysResolve ==
    (outcome.cmd = "build" /\ outcome.ok) =>
        \A i \in 1..Len(ItemIndex(outcome.arg)), order \in Orders :
            LET entry == ItemIndex(outcome.arg)[i]
                md == JoinPath(outcome.arg, with_extension(entry.val, S_md))
            IN  \A shown \in {show(target, entry.key, NoFault, order)} :
                    /\ EndsWith(md, S_dot \o S_md)
                    /\ md \in DOMAIN target.files
                    /\ shown.ok
                    /\ shown.resolved = md

\* an item path that is empty, has only separators, or begins or ends with
\* a separator
Malformed(item_path) ==
    \/ Len(item_path) = 0
    \/ StartsWith(item_path, S_sep)
    \/ EndsWith(item_path, S_sep)
    \/ \A i \in 1..Len(item_path) : item_path[i] = ":"

\* show failed in parse_item_path, before any operation was attempted
RejectedByParse ==
    /\ ~outcome.ok
    /\ outcome.err.kind = "InvalidItemPath"
    /\ outcome.trace = <<>>
    /\ outcome.out = <<>>

ConsultedIndex ==
    \E i, j \in 1..Len(outcome.trace) :
        /\ i < j
        /\ outcome.trace[i].op = "read"
        /\ outcome.trace[i].ok
        /\ EndsWith(outcome.trace[i].path, S_slash \o S_name)
        /\ outcome.trace[j].op = "extract"
        /\ outcome.trace[j].ok

\* the item part of a parsed item path is a text the site lists
ItemListed(item_path) ==
    LET parsed == parse_item_path(item_path)
    IN  parsed.ok /\ Len(parsed.val.item) = 1 /\ parsed.val.item[1] \in ListedTexts(site)

ItemStep(step) ==
    /\ step.op \in {"read", "convert", "write"}
    /\ ~EndsWith(step.path, S_slash \o S_index_html)
    /\ ~EndsWith(step.path, S_slash \o S_all_html)
    /\ ~EndsWith(step.path, S_slash \o S_index_md)
    /\ ~EndsWith(step.path, S_slash \o S_all_md)
    /\ ~EndsWith(step.path, S_slash \o S_name)

NameWritten ==
    \E i \in 1..Len(outcome.trace) :
        /\ outcome.trace[i].op = "write"
        /\ EndsWith(outcome.trace[i].path, S_slash \o S_name)

\* C5: if reading or converting an item's page fails during build, build
\* returns that error at once: the failed step is the last step of the run,
\* so no further item is converted or written, and the name file is not
\* written in that run.
C5_ItemFailureAbortsBuild ==
    outcome.cmd = "build" =>
        \A i \in 1..Len(outcome.trace) :
            (/\ ItemStep(outcome.trace[i])
             /\ outcome.trace[i].op \in {"read", "convert"}
             /\ ~outcome.trace[i].ok) =>
                /\ i = Len(outcome.trace)
                /\ ~outcome.ok
                /\ outcome.err.kind =
                       (IF outcome.trace[i].op = "read" THEN "ReadFailed"
                        ELSE "ElementNotFound")
                /\ ~NameWritten

\* a build wrote one item and then failed on the page of the next
C5_Witness ==
    /\ outcome.cmd = "build"
    /\ \E i, j \in 1..Len(outcome.trace) :
        /\ i < j
        /\ ItemStep(outcome.trace[i])
        /\ outcome.trace[i].op = "write"
        /\ ItemStep(outcome.trace[j])
        /\ ~outcome.trace[j].ok
    /\ ~NameWritten

\* the run wrote all.md
AllMdWritten ==
    \E i \in 1..Len(outcome.trace) :
        /\ outcome.trace[i].op = "write"
        /\ outcome.trace[i].ok
        /\ EndsWith(outcome.trace[i].path, S_slash \o S_all_md)

\* C7: extract_item_mappings fails whenever the listing page yields no
\* entry (no item-listing container, or a container without anchors), and
\* in build the failure is fatal: the extraction is the last step of the
\* run, no per-item file and no name file is written.
C7_NoEntriesIsFatal ==
    (outcome.cmd = "build" /\ AllMdWritten /\ ListedTexts(site) = {}) =>
        /\ ~outcome.ok
        /\ outcome.err.kind = "NoItemsFound"
        /\ outcome.trace[Len(outcome.trace)].op = "extract"
        /\ ~outcome.trace[Len(outcome.trace)].ok
        /\ \A i \in 1..Len(outcome.trace) : ~ItemStep(outcome.trace[i])
        /\ ~NameWritten

\* a build of a site whose listing has a container without anchors failed
\* in the extraction, after all.md was written
C7_Witness ==
    /\ outcome.cmd = "build"
    /\ site = "no_anchors"
    /\ AllMdWritten
    /\ outcome.err.kind = "NoItemsFound"
    /\ JoinPath(outcome.arg, S_all_md) \in DOMAIN target.files
    /\ JoinPath(outcome.arg, S_name) \notin DOMAIN target.files

\* the Markdown path of every entry of the item index of the site
ItemOutputs == [i \in 1..Len(ItemIndex(<<>>)) |-> with_extension(ItemIndex(<<>>)[i].val, S_md)]

\* each page of the index owns its output file: no two entries with
\* different pages are written to the same path
OwnOutputFiles ==
    \A i, j \in 1..Len(ItemOutputs) :
        ItemOutputs[i] = ItemOutputs[j] => ItemIndex(<<>>)[i].val = ItemIndex(<<>>)[j].val

\* every build that succeeds from the state before the step, in whatever
\* order the index is iterated, leaves the files the step left
SameFilesInEveryOrder ==
    \A order \in Orders, fault \in Faults :
        \A c \in {build(Start(target), outcome'.arg, fault, order)} :
            c.ok => c.target.files = target'.files

\* C17 as stated: when a build succeeds, the item files and their contents
\* are the same for every order in which the index entries are processed.
C17_AnyOrderSameFiles ==
    [][(outcome'.cmd = "build" /\ outcome'.ok) => SameFilesInEveryOrder]_vars

\* C17: when a build succeeds and each page of the index owns its output
\* file, the item files and their contents are the same for every order in
\* which the index entries are processed.
C17_AnyOrderSameFilesOwnOutputs ==
    [][(outcome'.cmd = "build" /\ outcome'.ok /\ OwnOutputFiles)
        => SameFilesInEveryOrder]_vars

\* a successful build of a library with two items, which the loop can take
\* in two orders, each written to its own file
C17_Witness ==
    /\ outcome.cmd = "build" /\ outcome.ok
    /\ OwnOutputFiles
    /\ Cardinality(Orders) > 1
    /\ Cardinality({i \in 1..Len(outcome.trace) :
            outcome.trace[i].op = "write" /\ ItemStep(outcome.trace[i])}) > 1

----------------------------------------------------------------------------
(* Claims about the documents of type aliases (SpecAlias).                 *)

AliasedId == IF alias.alias_data.type_.kind = "ResolvedPath"
             THEN alias.alias_data.type_.id ELSE 0

\* the aliased type is a resolved path to an item of the index
AliasedFound == AliasedId \in DOMAIN alias.crate_index

AliasedKind == IF AliasedFound THEN alias.crate_index[AliasedId].inner.kind ELSE "none"

\* the type arguments the alias gives to the aliased type
AliasArgs ==
    IF alias.alias_data.type_.kind = "ResolvedPath" /\ Len(alias.alias_data.type_.args) > 0
    THEN alias.alias_data.type_.args[1].args
    ELSE <<>>

\* the variants of the aliased enum, in declaration order
AliasedVariants ==
    [i \in 1..Len(alias.crate_index[AliasedId].inner.variants) |->
        alias.crate_index[alias.crate_index[AliasedId].inner.variants[i]]]

\* a variant that carries one value whose type is a parameter of the enum
CarriesParameter(v) ==
    /\ v.inner.vkind.kind = "Tuple"
    /\ Len(v.inner.vkind.fields) = 1
    /\ Len(v.inner.vkind.fields[1]) > 0
    /\ alias.crate_index[v.inner.vkind.fields[1][1]].inner.type_.kind = "Generic"

\* the position of the parameter a variant carries among the parameters of
\* the enum
ParameterOf(v) ==
    CHOOSE k \in 1..Len(alias.crate_index[AliasedId].inner.generics.params) :
        alias.crate_index[AliasedId].inner.generics.params[k].name =
            alias.crate_index[v.inner.vkind.fields[1][1]].inner.type_.name

\* the type a variant carries once the arguments of the alias are put in
\* the place of the parameters of the enum
SubstitutedType(v) == render_type_plain(AliasArgs[ParameterOf(v)].type_)

\* the alias targets a two-variant, two-parameter enum and fixes the second
\* parameter to a concrete type
SecondParameterFixed ==
    /\ AliasedKind = "Enum"
    /\ Len(alias.crate_index[AliasedId].inner.generics.params) = 2
    /\ Len(AliasedVariants) = 2
    /\ \A i \in 1..2 : CarriesParameter(AliasedVariants[i])
    /\ Len(AliasArgs) = 2
    /\ \A i \in 1..2 : AliasArgs[i].kind = "Type"
    /\ AliasArgs[2].type_.kind # "Generic"

\* the rows of the Variants table: the lines from the rule under the column
\* titles to the next empty line
TableRows ==
    LET lines == Lines(rendered.out)
        rule  == SubSeq(S_variants_rule, 1, Len(S_variants_rule) - 1)
        at    == {i \in 1..Len(lines) : lines[i] = rule}
        first == (CHOOSE i \in at : \A j \in at : i <= j) + 1
        ends  == {i \in first..Len(lines) : Len(lines[i]) = 0}
        last  == (CHOOSE i \in ends : \A j \in ends : i <= j) - 1
    IN  IF at = {} THEN <<>> ELSE SubSeq(lines, first, last)

InBackticks(s) == <<Backtick>> \o s \o <<Backtick>>

\* C18: for a type alias whose target is a two-variant, two-parameter enum
\* with a concrete type substituted for the second parameter, the Variants
\* table has exactly two rows, one per variant in declaration order, and each
\* row shows the type that variant carries after substitution, whatever the
\* variants are named.
C18_VariantRowsShowSubstitutedTypes ==
    (rendered.done /\ SecondParameterFixed) =>
        /\ Len(TableRows) = 2
        /\ \A i \in 1..2 :
              /\ i <= Len(TableRows)
              /\ Contains(TableRows[i], InBackticks(AliasedVariants[i].name[1]))
              /\ Contains(TableRows[i], InBackticks(SubstitutedType(AliasedVariants[i])))

\* the same for the variants that are named Ok and Err, in this order
OkErrRowsShowSubstitutedTypes ==
    (/\ rendered.done
     /\ SecondParameterFixed
     /\ AliasedVariants[1].name = Some(S_Ok)
     /\ AliasedVariants[2].name = Some(S_Err)) =>
        /\ Len(TableRows) = 2
        /\ \A i \in 1..2 :
              /\ Contains(TableRows[i], InBackticks(AliasedVariants[i].name[1]))
              /\ Contains(TableRows[i], InBackticks(SubstitutedType(AliasedVariants[i])))

\* where a section starts in the document, 0 when the document has none
SectionStart(marker) == FirstMatch(rendered.out, marker, 1)

\* the marks of the eight sections, in the order of the contract
SectionMarks ==
    <<<<"#", " ">> \o S_type_alias, S_namespace, S_definition, S_aliased_type,
      S_description, S_variants_heading, S_implementations, S_next_actions>>

SectionStarts == [k \in 1..Len(SectionMarks) |-> SectionStart(SectionMarks[k])]

\* the sections that are in the document follow each other in the order of
\* the contract
SectionsInOrder ==
    \A j, k \in 1..Len(SectionMarks) :
        (j < k /\ SectionStarts[j] > 0 /\ SectionStarts[k] > 0) =>
            SectionStarts[j] < SectionStarts[k]

\* C19: every document of a type alias has its sections in the order Title,
\* Namespace, Definition, Aliased Type, Description, Variants table,
\* Implementations, Next Actions; Title, Definition, Description,
\* Implementations and Next Actions are always present; Namespace, Aliased
\* Type and Variants table appear only when they apply.
C19_SectionOrderAndPresence ==
    rendered.done =>
        /\ SectionsInOrder
        /\ \A k \in {1, 3, 5, 7, 8} : SectionStarts[k] > 0
        /\ (SectionStarts[2] > 0) => (Len(alias.namespace) > 0)
        /\ (SectionStarts[4] > 0) => AliasedFound
        /\ (SectionStarts[6] > 0) => (AliasedKind = "Enum")

\* the order alone, and the sections that no input makes the code leave out
SectionsAsGenerated ==
    rendered.done =>
        /\ SectionsInOrder
        /\ \A k \in {1, 3, 4, 8} : SectionStarts[k] > 0
        /\ (SectionStarts[2] > 0) <=> (Len(alias.namespace) > 0)
        /\ (SectionStarts[5] > 0) <=> (Len(render_documentation(alias.item.docs)) > 0)
        /\ (SectionStarts[6] > 0) <=> (AliasedKind = "Enum")
        /\ (SectionStarts[7] > 0) <=> (AliasedKind \in {"Enum", "none"})

\* C20: every type-alias document contains a note stating that the alias
\* inherits all implementations from the underlying type, whether the
\* aliased type is an enum, a struct, absent from the crate index, or not a
\* resolved path.
C20_InheritsNoteAlways ==
    rendered.done => Contains(rendered.out, S_inherits)

\* the note is in the document unless the aliased type is in the index and
\* is not an enum
InheritsNoteUnlessNonEnum ==
    rendered.done =>
        (Contains(rendered.out, S_inherits) <=> AliasedKind \in {"Enum", "none"})

----------------------------------------------------------------------------
(* Claims about the renderers of types (SpecType).                         *)

\* the types directly inside a type
TypesInside(t) ==
    CASE t.kind = "Tuple" -> {t.types[i] : i \in 1..Len(t.types)}
      [] t.kind \in {"Slice", "Array", "RawPointer", "BorrowedRef"} -> {t.type_}
      [] t.kind = "ResolvedPath" ->
            IF Len(t.args) = 0 THEN {}
            ELSE {t.args[1].args[i].type_ : i \in 1..Len(t.args[1].args)}
      [] OTHER -> {}

\* a function pointer or a trait object occurs in the type
RECURSIVE HasOpaque(_)
HasOpaque(t) ==
    \/ t.kind \in {"FunctionPointer", "DynTrait"}
    \/ \E u \in TypesInside(t) : HasOpaque(u)

\* a path with arguments occurs in the type
RECURSIVE HasArguments(_)
HasArguments(t) ==
    \/ t.kind = "ResolvedPath" /\ Len(t.args) > 0
    \/ \E u \in TypesInside(t) : HasArguments(u)

\* C21: rendering of type signatures is lossless: over primitives, generic
\* parameters, paths with angle-bracket arguments, tuples, arrays, slices,
\* raw pointers, borrowed references, function pointers and trait objects at
\* any nesting depth, two structurally different types never render to the
\* same text.
C21_RenderingLossless ==
    (product.done /\ subject[1] # subject[2]) =>
        /\ product.type_alias[1] # product.type_alias[2]
        /\ product.struct[1] # product.struct[2]
        /\ product.enum[1] # product.enum[2]

\* the renderer of type aliases tells apart the types in which no function
\* pointer and no trait object occurs; the renderers of fields tell them
\* apart when no path has arguments either
LosslessWithoutOpaque ==
    (/\ product.done
     /\ subject[1] # subject[2]
     /\ ~HasOpaque(subject[1])
     /\ ~HasOpaque(subject[2])) =>
        /\ product.type_alias[1] # product.type_alias[2]
        /\ (~HasArguments(subject[1]) /\ ~HasArguments(subject[2])) =>
              /\ product.struct[1] # product.struct[2]
              /\ product.union[1] # product.union[2]
              /\ product.enum[1] # product.enum[2]

\* C29: for every field type the renderers of struct, union and enum fields
\* produce the same text; a borrowed reference with lifetime 'a to T renders
\* as &'a T, and as &'a mut T when mutable, in all three.
C29_FieldRenderersAgree ==
    product.done =>
        \A i \in 1..2 :
            /\ product.struct[i] = product.union[i]
            /\ product.union[i] = product.enum[i]
            /\ (subject[i].kind = "BorrowedRef" /\ subject[i].lifetime = Some(
                <<"'", "a">>)) =>
                  product.struct[i] =
                          <<"&", "'", "a", " ">> \o (IF subject[i].is_mutable THEN S_mut ELSE <<>>)
                      \o enum_render_field_type(subject[i].type_)

\* the three renderers agree on the types in which no reference has a
\* lifetime, and the renderers of struct and union agree on every type
FieldRenderersAgreeWithoutLifetime ==
    product.done =>
        \A i \in 1..2 :
            /\ product.struct[i] = product.union[i]
            /\ (\/ product.struct[i] = product.enum[i]
                \/ subject[i].kind = "BorrowedRef" /\ Len(subject[i].lifetime) > 0
                \/ \E u \in TypesInside(subject[i]) : 
                       u.kind = "BorrowedRef" /\ Len(u.lifetime) > 0)

----------------------------------------------------------------------------
(* Claims about the file names of the generated corpus (SpecFiles).        *)

\* the line of the item lists that links the name of an item to a file
LinkLine(name, filename) == <<"-", " ", "[">> \o name \o <<"]", "(">> \o filename \o <<")", "\n">>

\* the public items with a generator that index.md lists
ListedGenerated ==
    {id \in GroupedIds(subject) : subject.index[id].inner.kind \in GeneratedKinds}

\* C22: for every public item that index.md lists, the file its link
\* targets (the sanitized form of the item's path: `::` replaced, generic
\* parameters stripped, `.md` appended) is the file that the struct, enum,
\* union or type-alias generator writes for that item.
C22_LinksTargetGeneratedFiles ==
    product.done =>
        \A id \in ListedGenerated :
            Contains(product.item_lists,
                     LinkLine(subject.index[id].name[1], product.files[id]))

\* every listed item is linked to the file named after its name, and its
\* generator writes the file named after its numeric id
LinksByNameFilesById ==
    product.done =>
        \A id \in ListedGenerated :
            /\ Contains(product.item_lists,
                        LinkLine(subject.index[id].name[1],
                                 subject.index[id].name[1] \o S_md_extension))
            /\ product.files[id] = Decimal(id) \o S_md_extension

----------------------------------------------------------------------------
(* Claims about the documents of unions (SpecUnion).                       *)

\* the safety note as it stands in a document
SafetyNote == <<"#", "#", " ", "S", "a", "f", "e", "t", "y", "\n">> \o S_safety_sentence \o <<"\n">>

\* the positions of a document at which a text starts
Occurrences(s, p) == {i \in 1..(Len(s) - Len(p) + 1) : SubSeq(s, i, i + Len(p) - 1) = p}

\* the lines of a text that are not empty
NonEmptyLines(s) == SelectSeq(Lines(s), LAMBDA line : Len(line) > 0)

\* the document up to the safety note
BeforeNote ==
    SubSeq(product.out, 1, FirstMatch(product.out, SafetyNote, 1) - 1)

\* the document after the safety note
AfterNote ==
    SubSeq(product.out, FirstMatch(product.out, SafetyNote, 1) + Len(SafetyNote),
           Len(product.out))

\* the headings of the sections that follow the note
LaterHeadings == {<<"#", "#", " ", "F", "i", "e", "l", "d", "s", "\n">>, <<"#", "#", " ", "G", "e", "n", "e", "r", "i", "c", " ", "P", "a", "r", "a", "m", "e", "t", "e", "r", "s", "\n">>, <<"#", "#", " ", "N", "e", "x", "t", " ", "A", "c", "t", "i", "o", "n", "s", "\n">>}

\* C23: every union document contains the safety note exactly once, placed
\* directly after the description (directly after the title when the union
\* has no description) and before the fields, generic-parameter and
\* next-actions sections.
C23_SafetyNoteOnceAfterDescription ==
    product.done =>
        /\ Cardinality(Occurrences(product.out, SafetyNote)) = 1
        /\ Cardinality(Occurrences(product.out, S_safety_sentence)) = 1
        /\ NonEmptyLines(BeforeNote) =
              <<<<"#", " ">> \o NameOr(subject.item, S_Anonymous)>>
              \o NonEmptyLines(render_documentation(subject.item.docs))
        /\ \A h \in LaterHeadings : ~Contains(BeforeNote, h)
        /\ Contains(AfterNote,
            <<"#", "#", " ", "N", "e", "x", "t", " ", "A", "c", "t", "i", "o",
              "n", "s", "\n">>)

\* a union with a description of several lines, fields and generic
\* parameters, whose document has all the sections
C23_Witness ==
    /\ product.done
    /\ Len(NonEmptyLines(render_documentation(subject.item.docs))) > 1
    /\ \A h \in LaterHeadings : Contains(AfterNote, h)

\* a union without a description, whose note follows the title
NoDescriptionNoteAfterTitle ==
    /\ product.done
    /\ Len(subject.item.docs) = 0
    /\ Len(NonEmptyLines(BeforeNote)) = 1
    /\ Contains(AfterNote,
        <<"#", "#", " ", "F", "i", "e", "l", "d", "s", "\n">>)

----------------------------------------------------------------------------
(* Claims about format_all_md (SpecFormat).                                *)

\* the list items of a page by section: for every line of the page that is
\* a section heading, the items between it and the next heading
SectionItems(lines) ==
    LET headings == {i \in 1..Len(lines) : StartsWith(lines[i], S_h3)}
        nth(k) == CHOOSE i \in headings : Cardinality({j \in headings : j < i}) = k - 1
        stop(i) == IF \E j \in headings : j > i
                   THEN (CHOOSE j \in headings : j > i /\ \A m \in headings : m > i => j <= m) - 1
                   ELSE Len(lines)
    IN  [k \in 1..Cardinality(headings) |->
            SelectSeq(SubSeq(lines, nth(k) + 1, stop(nth(k))),
                      LAMBDA line : StartsWith(line, S_item))]

\* the first list item of every section that has one, in section order
FirstItems(lines) ==
    LET with_items == SelectSeq(SectionItems(lines), LAMBDA items : Len(items) > 0)
    IN  [k \in 1..Len(with_items) |-> Tail_(with_items[k][1], Len(S_item) + 1)]

\* the lines of the last shell block of a document: the usage examples
ExampleLines(out) ==
    LET lines == Lines(out)
        opens == {i \in 1..Len(lines) : lines[i] = S_fence_shell}
        open  == CHOOSE i \in opens : \A j \in opens : j <= i
    IN  IF opens = {} \/ Len(lines) = 0 THEN <<>>
        ELSE IF lines[Len(lines)] # S_fence THEN <<>>
        ELSE SubSeq(lines, open + 1, Len(lines) - 1)

\* the examples the page calls for: its first items, three at most, each
\* with the name of the library, or the generic example when it has none
ExpectedExamples(crate_name, lines) ==
    IF Len(FirstItems(lines)) = 0
    THEN <<S_show \o crate_name \o S_sep \o S_some_item>>
    ELSE [k \in 1..(IF Len(FirstItems(lines)) < 3 THEN Len(FirstItems(lines)) ELSE 3) |->
            S_show \o crate_name \o S_sep \o FirstItems(lines)[k]]

\* C25: the usage examples format_all_md appends to all.md are exactly the
\* first list item of each `###` section, in section order and at most
\* three, each prefixed with the library name; the generic
\* `<library>::SomeItem` example appears if and only if no section has a
\* list item.
C25_UsageExamples ==
    product.done =>
        ExampleLines(product.out) =
            ExpectedExamples(subject.crate_name, Lines(subject.content))

\* the same for the pages that are not empty and whose first line is not a
\* section heading
UsageExamplesAfterFirstLine ==
    (/\ product.done
     /\ Len(Lines(subject.content)) > 0
     /\ ~StartsWith(subject.content, S_h3)) =>
        ExampleLines(product.out) =
            ExpectedExamples(subject.crate_name, Lines(subject.content))


----------------------------------------------------------------------------
(* Further claims about the commands (Spec).                               *)

\* the errors of validate_crate_name
ValidationErrors == {"ItemPathGiven", "EmptyCrateName"}

\* C24: the list command rejects an empty name and every name containing
\* `::` (leading, trailing, doubled or embedded), before any build or file
\* read is attempted, and accepts every other name, including names with
\* hyphens or underscores.
C24_ListValidatesName ==
    outcome.cmd = "list" =>
        IF Len(outcome.arg) = 0 \/ Contains(outcome.arg, S_sep)
        THEN /\ ~outcome.ok
             /\ outcome.err.kind \in ValidationErrors
             /\ outcome.trace = <<>>
        ELSE /\ outcome.err.kind \notin ValidationErrors
             /\ Len(outcome.trace) > 0

\* list was given a name with a trailing separator while the corpus of the
\* library was there, and neither read nor built anything
C24_Witness ==
    /\ outcome.cmd = "list"
    /\ outcome.arg = UnderscoreCrate \o S_sep
    /\ ~outcome.ok
    /\ outcome.trace = <<>>
    /\ JoinPath(UnderscoreCrate, S_all_md) \in DOMAIN target.files

\* the corpus of a library is complete: its name file and the Markdown file
\* of every entry of the item index are there
CorpusComplete(crate_name) ==
    /\ JoinPath(crate_name, S_name) \in DOMAIN target.files
    /\ \A i \in 1..Len(ItemOutputs) :
            JoinPath(crate_name, ItemOutputs[i]) \in DOMAIN target.files

\* the last command ran no build
NoBuildRun == \A i \in 1..Len(outcome.trace) : outcome.trace[i].op # "doc"

\* the errors of show and list for a generated file that is not there
MissingFileErrors == {"ReadNameFailed", "ReadMarkdownFailed"}

\* C26: in every state reachable by any sequence of build, show and list
\* in which any build step may fail, if docmd/<crate>/all.md exists then
\* the name file and every per-item Markdown file of the index exist too,
\* so a show or list that skips the build because all.md exists never
\* fails for a missing generated file.
C26_AllMdImpliesCorpus ==
    /\ \A crate_name \in CrateNames :
            JoinPath(crate_name, S_all_md) \in DOMAIN target.files =>
                CorpusComplete(crate_name)
    /\ (outcome.cmd \in {"show", "list"} /\ NoBuildRun) =>
            outcome.err.kind \notin MissingFileErrors

\* the corpus is complete after every build that returned success
CorpusCompleteAfterBuild ==
    (outcome.cmd = "build" /\ outcome.ok) => CorpusComplete(outcome.arg)

\* the lines of all.md of a library
AllMdLines(crate_name) == Lines(target.files[JoinPath(crate_name, S_all_md)])

\* the line of all.md that opens its examples
ExamplesLine(crate_name) ==
    CHOOSE i \in 0..Len(AllMdLines(crate_name)) :
        /\ i > 0 => AllMdLines(crate_name)[i] = S_examples
        /\ \A j \in (i + 1)..Len(AllMdLines(crate_name)) :
                AllMdLines(crate_name)[j] # S_examples

\* the rest of every line of all.md among the given ones that begins with
\* the given text
AfterPrefix(crate_name, among, prefix) ==
    {Tail_(AllMdLines(crate_name)[i], Len(prefix) + 1) :
        i \in {j \in among : StartsWith(AllMdLines(crate_name)[j], prefix)}}

\* the item paths all.md lists, and the item paths of its usage examples
ListedPaths(crate_name) ==
    AfterPrefix(crate_name, 1..Len(AllMdLines(crate_name)), S_item)
ExamplePaths(crate_name) ==
    AfterPrefix(crate_name,
                (ExamplesLine(crate_name) + 1)..Len(AllMdLines(crate_name)), S_show)

\* show accepts the item path and resolves it to a Markdown file that exists
ShowResolves(item_path) ==
    \A order \in Orders :
        \A shown \in {show(target, item_path, NoFault, order)} :
            /\ shown.ok
            /\ shown.resolved \in DOMAIN target.files
            /\ EndsWith(shown.resolved, S_dot \o S_md)

\* C27: after a successful build, every item path listed in all.md, and
\* every usage example printed there, is accepted by show and resolves to
\* an existing Markdown file, also for a library whose declared name
\* contains hyphens.
C27_AllMdPathsResolve ==
    (outcome.cmd = "build" /\ outcome.ok) =>
        \A item_path \in ListedPaths(outcome.arg) \cup ExamplePaths(outcome.arg) :
            ShowResolves(item_path)

\* the paths of all.md resolve for a library declared without hyphens
AllMdPathsResolveWithoutHyphen ==
    (outcome.cmd = "build" /\ outcome.ok
        /\ CanonicalName(outcome.arg) = outcome.arg) =>
        /\ ListedPaths(outcome.arg) # {}
        /\ ExamplePaths(outcome.arg) # {}
        /\ \A item_path \in ListedPaths(outcome.arg) \cup ExamplePaths(outcome.arg) :
                ShowResolves(item_path)

\* the library a show or a list was asked about
AskedCrate(cmd, arg) ==
    IF cmd = "show" THEN parse_item_path(arg).val.crate_name ELSE arg

\* the command passed the validation of its argument
ArgumentValid(cmd, arg) ==
    IF cmd = "show" THEN parse_item_path(arg).ok ELSE validate_crate_name(arg).ok

\* the operations only a build performs, and the error only a build raises
BuildOps == {"doc", "convert", "mkdir", "write"}
BuildRan(o) ==
    \/ \E i \in 1..Len(o.trace) : o.trace[i].op \in BuildOps
    \/ o.err.kind = "NotInstalledDependency"

\* C28: show and list run a build only when docmd/<crate>/all.md does not
\* exist; when it exists no build step runs and no file of the generated
\* corpus is created, overwritten or removed by the invocation.
C28_BuildOnlyWithoutAllMd ==
    [][(outcome'.cmd \in {"show", "list"}
            /\ ArgumentValid(outcome'.cmd, outcome'.arg)) =>
        IF JoinPath(AskedCrate(outcome'.cmd, outcome'.arg), S_all_md)
                \in DOMAIN target.files
        THEN ~BuildRan(outcome') /\ target' = target
        ELSE TRUE]_vars

\* a show or a list found all.md, ran no build and printed the file asked for
C28_Witness ==
    /\ outcome.cmd \in {"show", "list"}
    /\ outcome.ok
    /\ ~BuildRan(outcome)
    /\ JoinPath(AskedCrate(outcome.cmd, outcome.arg), S_all_md)
            \in DOMAIN target.files

----------------------------------------------------------------------------
(* Further claims about convert (SpecConvert).                             *)

\* the elements whose children are rendered on one line
InlineParents == {"h1", "h2", "h3", "h4", "h5", "h6", "p", "li"}

InlineElements == {"code", "strong", "em", "a", "span"}

\* the elements of the content root that hold inline elements
InlineHolders ==
    SelectSeq(Elements(ContentRoot),
              LAMBDA e : e.name \in InlineParents /\ ~should_skip_node(e))

\* the places of a holder where two inline elements stand with nothing but
\* a text of whitespace between them
WhitespaceGaps(holder) ==
    {i \in 1..(Len(holder.kids) - 2) :
        /\ holder.kids[i].kind = "elem"
        /\ holder.kids[i].name \in InlineElements
        /\ holder.kids[i + 1].kind = "text"
        /\ Len(holder.kids[i + 1].s) > 0
        /\ IsBlank(holder.kids[i + 1].s)
        /\ holder.kids[i + 2].kind = "elem"
        /\ holder.kids[i + 2].name \in InlineElements}

\* the rendered text of a child of a holder, as it stands on the line
RenderedInline(holder, i) ==
    NormalizeWhitespace(convert_node(holder.kids[i], holder.name))

\* C30: when two inline elements (code, strong, em, anchor, span) inside a
\* paragraph, heading or list item are separated only by whitespace in the
\* source, their rendered texts are separated by exactly one space in the
\* output and are never joined together.
C30_InlineElementsKeepSpace ==
    Converted =>
        \A h \in 1..Len(InlineHolders) :
            \A i \in WhitespaceGaps(InlineHolders[h]) :
                /\ Contains(converted.val,
                            RenderedInline(InlineHolders[h], i) \o <<" ">>
                                \o RenderedInline(InlineHolders[h], i + 2))
                /\ ~Contains(convert_children_normalized(InlineHolders[h]),
                             RenderedInline(InlineHolders[h], i)
                                \o RenderedInline(InlineHolders[h], i + 2))

\* what convert does with such a pair: the whitespace between the two
\* elements is dropped and their rendered texts stand joined
WhitespaceGapDropped ==
    Converted =>
        \A h \in 1..Len(InlineHolders) :
            \A i \in WhitespaceGaps(InlineHolders[h]) :
                Contains(converted.val,
                         RenderedInline(InlineHolders[h], i)
                            \o RenderedInline(InlineHolders[h], i + 2))

\* a converted document with such a pair in a heading or a list item
WhitespaceGapsConverted ==
    /\ Converted
    /\ \E h \in 1..Len(InlineHolders) :
            /\ InlineHolders[h].name \in {"h3", "li"}
            /\ WhitespaceGaps(InlineHolders[h]) # {}
====
